---------------------------- MODULE Spec2Model ----------------------------
(***************************************************************************)
(* A model of the complaint-analysis RAG demo:                             *)
(*   src/src/rag_pipeline.py   load_components, retrieve_chunks,           *)
(*                             generate_answer, run_rag_pipeline           *)
(*   src/app.py                the Gradio chat handler respond             *)
(*   src/apps.py               the Streamlit chat script                   *)
(*   src/src/prep.py, src/src/preprocessing.py,                            *)
(*   src/src/complaints_modular_cleaning_eda.py   the preprocessing scripts*)
(*   src/src/embed_and_index.py                   the indexer              *)
(*                                                                         *)
(* Five specifications share the variables:                                *)
(*   SpecFn       direct calls of the pure functions of rag_pipeline.py    *)
(*   Spec         a serving process: start-up, then queries                *)
(*   SpecOffline  runs of the offline stages over a file system            *)
(*   SpecText     direct calls of the text, category and chunking          *)
(*                functions of the offline stages                          *)
(*   SpecSystem   the indexer and a serving process running concurrently   *)
(*                over one file system, step by step                       *)
(*                                                                         *)
(* Texts whose characters do not matter to the serving path are kept       *)
(* abstract: a page_content is the slice (src, start, len) of a narrative, *)
(* a fixed message is the string the source writes.  The texts the         *)
(* preprocessing scripts clean are tuples of characters.                   *)
(***************************************************************************)
EXTENDS Integers, Sequences, FiniteSets, TLC

VARIABLES
    call,           \* SpecFn, SpecText: the last direct call, its arguments and result
    env,            \* what start-up finds: outcome of each of the three loads
    ui,             \* which app runs: "gradio" (app.py) or "streamlit" (apps.py)
    pc,             \* "start" before the module-level initialization, then "serving"
    db,             \* app.py:20 / apps.py:44 module globals
    embeddings,
    llm_pipeline,
    history,        \* the chat history the Gradio chatbot holds and passes to respond
    shown,          \* Gradio: what the last respond call showed the user
    session,        \* Streamlit st.session_state
    last,           \* the query whose reply is on display: its input and its RAG run
    nq,             \* number of queries submitted so far
    failed,         \* TRUE once a query's RAG run raised
    loaded,         \* what load_components returned at start-up, and in
                    \* SpecSystem the index file it has read so far
    fs,             \* SpecOffline, SpecSystem: the persisted files
    stage           \* SpecOffline: the last stage run and how it ended;
                    \* SpecSystem: the run of the indexer and its position

vars == <<call, env, ui, pc, db, embeddings, llm_pipeline, history, shown,
          session, last, nq, failed, loaded, fs, stage>>

-----------------------------------------------------------------------------
(* Bounds of the model *)

MaxIndex == 6       \* largest number of chunks in a vector store
MaxK == 6           \* largest k of a direct retrieve_chunks call
MaxQueries == 3     \* queries per serving process

(* Program constants *)

DefaultK == 5       \* k of run_rag_pipeline as the apps call it
TopSources == 3     \* retrieved_docs[:3]
PreviewLen == 200   \* doc.page_content[:200]
ChunkSize == 1500   \* chunk_size of the text splitter: the longest page_content
ChunkOverlap == 150     \* embed_and_index.py:75
MinWords == 10          \* complaints_modular_cleaning_eda.py:84, preprocessing.py:87
MaxWords == 1000        \* complaints_modular_cleaning_eda.py:84, preprocessing.py:88
MinChars == 30          \* preprocessing.py:86

Min(a, b) == IF a < b THEN a ELSE b

-----------------------------------------------------------------------------
(* Values *)

\* Python's None.  Every component value is a record, so that None, a loaded
\* component and a document can be compared.
None == [kind |-> "None"]

\* `not x` of a component: None is falsy; a FAISS store, an embedding model and
\* a transformers pipeline define neither __bool__ nor __len__ and are truthy.
Truthy(x) == x.kind # "None"

Questions == {"q1", "q2"}

Products == <<"Credit card", "Personal loan", "Savings account">>

\* Document i of a store: the chunk of complaint i, as embed_and_index.py
\* builds it (page_content, metadata complaint_id and product).
Doc(i) ==
    [kind |-> "Document",
     page_content |-> [src |-> i, start |-> 0,
                       len |-> IF i % 2 = 1 THEN 150 ELSE ChunkSize],
     metadata |-> [complaint_id |-> i,
                   product |-> Products[(i % Len(Products)) + 1]]]

\* A FAISS store holding documents 1..n.
FAISS(n) == [kind |-> "FAISS", docs |-> [i \in 1..n |-> Doc(i)]]

Embeddings == [kind |-> "SentenceTransformerEmbeddings"]

Pipeline == [kind |-> "pipeline"]

Reverse(s) == [i \in 1..Len(s) |-> s[Len(s) + 1 - i]]

Take(s, n) == SubSeq(s, 1, Min(n, Len(s)))

-----------------------------------------------------------------------------
(* The fixed messages of the source *)

MSG_LLM_NOT_INIT == "LLM generator not initialized."
MSG_NO_INFO == "I don't have enough information from the retrieved context to answer this question."
MSG_GEN_ERROR == "An error occurred during answer generation."
MSG_NOT_INIT == "Sorry, the RAG system is not initialized. Please check the server logs for errors."
MSG_SEARCHING == "Searching for relevant complaints and generating response..."
MSG_INTERNAL == "An internal error occurred while generating the response. Please try again later."
MSG_ST_NOT_LOADED == "Sorry, the RAG system is not fully loaded or encountered an error. Please try refreshing the page or check the server logs."

\* The text of an exception raised by a library call.
EXC_TEXT == "RuntimeError: CUDA out of memory"

-----------------------------------------------------------------------------
(* rag_pipeline.py *)

\* What the similarity search of the FAISS library answers: it raises, or it
\* returns the k nearest documents, nearest first, fewer when the store holds
\* fewer.  The ranking depends on the question.
SearchOutcomes == {"ok", "raises"}

Ranked(store, question) ==
    IF question = "q1" THEN store.docs ELSE Reverse(store.docs)

similarity_search(store, question, k) == Take(Ranked(store, question), k)

\* retrieve_chunks(question, db, k); `search` is the outcome of the library call.
retrieve_chunks_NoCatch(question, store, k, search) ==
    IF ~Truthy(store)
    THEN [ret |-> <<>>, raised |-> FALSE, log |-> "Vector store not initialized."]
    ELSE IF search = "raises"
         THEN [ret |-> <<>>, raised |-> TRUE, log |-> ""]
         ELSE [ret |-> similarity_search(store, question, k), raised |-> FALSE,
               log |-> "Retrieved chunks."]

retrieve_chunks_IgnoreK(question, store, k, search) ==
    IF ~Truthy(store)
    THEN [ret |-> <<>>, raised |-> FALSE, log |-> "Vector store not initialized."]
    ELSE IF search = "raises"
         THEN [ret |-> <<>>, raised |-> FALSE, log |-> EXC_TEXT]
         ELSE [ret |-> store.docs, raised |-> FALSE, log |-> "Retrieved chunks."]

retrieve_chunks(question, store, k, search) ==
    IF ~Truthy(store)
    THEN [ret |-> <<>>, raised |-> FALSE, log |-> "Vector store not initialized."]
    ELSE IF search = "raises"
         THEN [ret |-> <<>>, raised |-> FALSE, log |-> EXC_TEXT]
         ELSE [ret |-> similarity_search(store, question, k), raised |-> FALSE,
               log |-> "Retrieved chunks."]

\* What happens when generate_answer goes on past its two early returns: an
\* exception while the prompt is built (line 113 joins the page_content of the
\* chunks, outside the try: a chunk whose page_content is not text raises
\* TypeError), an exception of the generation model (inside the try), or a
\* generated text, which may be empty or blank.
GenOutcomes ==
    {[at |-> "prompt", text |-> EXC_TEXT],
     [at |-> "llm", text |-> EXC_TEXT],
     [at |-> "none", text |-> "generated answer"],
     [at |-> "none", text |-> ""],
     [at |-> "none", text |-> "  "]}

\* The prompt: the template filled with the chunk texts in the order received
\* and the question.
formatted_prompt(question, context_chunks) ==
    [context |-> [i \in 1..Len(context_chunks) |-> context_chunks[i].page_content],
     question |-> question]

NoCall == [invoked |-> FALSE]

LLMCall_Sampling(prompt) ==
    [invoked |-> TRUE, prompt |-> prompt, max_new_tokens |-> 200,
     do_sample |-> TRUE, truncation |-> TRUE]

\* llm_pipeline(formatted_prompt, max_new_tokens=200, do_sample=False, truncation=True)
LLMCall(prompt) ==
    [invoked |-> TRUE, prompt |-> prompt, max_new_tokens |-> 200,
     do_sample |-> FALSE, truncation |-> TRUE]

\* The four ways generate_answer ends.
Returned(text, llm_call, log) ==
    [ret |-> text, raised |-> FALSE, exc |-> "", llm_call |-> llm_call, log |-> log]

Raised(text, llm_call) ==
    [ret |-> "", raised |-> TRUE, exc |-> text, llm_call |-> llm_call, log |-> ""]

generate_answer_LeakError(question, context_chunks, llm, outcome) ==
    IF ~Truthy(llm) THEN Returned(MSG_LLM_NOT_INIT, NoCall, "")
    ELSE IF context_chunks = <<>> THEN Returned(MSG_NO_INFO, NoCall, "")
    ELSE IF outcome.at = "prompt" THEN Raised(outcome.text, NoCall)
    ELSE IF outcome.at = "llm"
    THEN Returned(outcome.text, LLMCall(formatted_prompt(question, context_chunks)),
                  outcome.text)
    ELSE Returned(outcome.text, LLMCall(formatted_prompt(question, context_chunks)), "")

generate_answer_NoShortCircuit(question, context_chunks, llm, outcome) ==
    IF ~Truthy(llm) THEN Returned(MSG_LLM_NOT_INIT, NoCall, "")
    ELSE IF outcome.at = "prompt" THEN Raised(outcome.text, NoCall)
    ELSE IF outcome.at = "llm"
    THEN Returned(MSG_GEN_ERROR, LLMCall(formatted_prompt(question, context_chunks)),
                  outcome.text)
    ELSE Returned(outcome.text, LLMCall(formatted_prompt(question, context_chunks)), "")

\* generate_answer(question, context_chunks, llm_pipeline); `outcome` is what
\* happens past the early returns.
generate_answer(question, context_chunks, llm, outcome) ==
    IF ~Truthy(llm) THEN Returned(MSG_LLM_NOT_INIT, NoCall, "")
    ELSE IF context_chunks = <<>> THEN Returned(MSG_NO_INFO, NoCall, "")
    ELSE IF outcome.at = "prompt" THEN Raised(outcome.text, NoCall)
    ELSE IF outcome.at = "llm"
    THEN Returned(MSG_GEN_ERROR, LLMCall(formatted_prompt(question, context_chunks)),
                  outcome.text)
    ELSE Returned(outcome.text, LLMCall(formatted_prompt(question, context_chunks)), "")

\* run_rag_pipeline(question, db, llm_pipeline, k): an exception of either call
\* propagates.
run_rag_pipeline(question, store, llm, k, search, outcome) ==
    LET r == retrieve_chunks(question, store, k, search)
        g == generate_answer(question, r.ret, llm, outcome)
    IN  IF r.raised
        THEN [answer |-> "", retrieved_docs |-> <<>>, raised |-> TRUE, exc |-> EXC_TEXT,
              llm_call |-> NoCall, logs |-> <<r.log>>]
        ELSE [answer |-> g.ret, retrieved_docs |-> r.ret, raised |-> g.raised,
              exc |-> g.exc, llm_call |-> g.llm_call, logs |-> <<r.log, g.log>>]

-----------------------------------------------------------------------------
(* rag_pipeline.py: load_components *)

\* How one of the three loads ends: it succeeds or raises an exception of
\* this class.
LoadOutcomes == {"ok", "ImportError", "Exception"}

\* isinstance(exc, cls) for the two classes the handlers name.
IsInstance(exc, cls) == cls = "Exception" \/ exc = cls

Caught(exc, handlers) == \E h \in handlers : IsInstance(exc, h)

\* What start-up can find: the outcome of loading the embedding model, whether
\* VECTOR_STORE_PATH exists, the outcome of FAISS.load_local and the number of
\* chunks the persisted store holds, the outcome of loading the generation model.
Envs ==
    {e \in [emb : LoadOutcomes, dir_exists : BOOLEAN, store : LoadOutcomes,
            n : 0..MaxIndex, llm : LoadOutcomes] :
        /\ (~e.dir_exists => e.store = "ok" /\ e.n = 0)
        /\ (e.store # "ok" => e.n = 0)}

NoneTriple == [ret |-> <<None, None, None>>, raised |-> FALSE]

LoadRaised == [ret |-> <<None, None, None>>, raised |-> TRUE]

AfterHandlers(exc, handlers) ==
    IF Caught(exc, handlers) THEN NoneTriple ELSE LoadRaised

load_components_Partial(e) ==
    IF e.emb # "ok" THEN AfterHandlers(e.emb, {"ImportError", "Exception"})
    ELSE IF ~e.dir_exists THEN NoneTriple
    ELSE IF e.store # "ok" THEN AfterHandlers(e.store, {"ImportError", "Exception"})
    ELSE IF e.llm # "ok"
    THEN [ret |-> <<FAISS(e.n), Embeddings, None>>, raised |-> FALSE]
    ELSE [ret |-> <<FAISS(e.n), Embeddings, Pipeline>>, raised |-> FALSE]

\* load_components(): returns (db, embeddings, llm_pipeline)
load_components(e) ==
    IF e.emb # "ok" THEN AfterHandlers(e.emb, {"ImportError", "Exception"})
    ELSE IF ~e.dir_exists THEN NoneTriple
    ELSE IF e.store # "ok" THEN AfterHandlers(e.store, {"ImportError", "Exception"})
    ELSE IF e.llm # "ok" THEN AfterHandlers(e.llm, {"Exception"})
    ELSE [ret |-> <<FAISS(e.n), Embeddings, Pipeline>>, raised |-> FALSE]

-----------------------------------------------------------------------------
(* app.py and apps.py *)

\* `db and embeddings and llm_pipeline` of a triple of components
AllTruthy(g) == Truthy(g[1]) /\ Truthy(g[2]) /\ Truthy(g[3])

\* app.py:24-31 and apps.py:36-41: the globals after start-up
module_init(triple) ==
    IF ~AllTruthy(triple) THEN <<None, None, None>> ELSE triple

\* A chat message {"role": ..., "content": ...}.  A content is the text, the
\* source lines appended to it and whether the no-sources note is appended.
Msg(role, content) == [role |-> role, content |-> content]

Plain(text) == [text |-> text, sources |-> <<>>, note |-> FALSE]

\* text[:n] of an abstract text
Prefix(text, n) == [text EXCEPT !.len = Min(text.len, n)]

\* app.py:61-66: one line of the sources list (the escaping of '*' and '_' in
\* the preview does not change which characters are shown)
SourceLine(doc) ==
    [complaint_id |-> doc.metadata.complaint_id,
     product |-> doc.metadata.product,
     preview |-> Prefix(doc.page_content, PreviewLen)]

\* app.py:53-71: final_message_content
final_message_content(answer, retrieved_docs) ==
    [text |-> answer,
     sources |-> [i \in 1..Min(TopSources, Len(retrieved_docs)) |->
                     SourceLine(retrieved_docs[i])],
     note |-> retrieved_docs = <<>>]

NoRun == [ran |-> FALSE]

RagRun(r) ==
    [ran |-> TRUE, answer |-> r.answer, retrieved_docs |-> r.retrieved_docs,
     raised |-> r.raised, exc |-> r.exc, llm_call |-> r.llm_call, logs |-> r.logs]

respond_LeakException(message, hist, g, search, outcome) ==
    IF ~AllTruthy(g)
    THEN [yields |-> <<>>,
          returned |-> hist \o <<Msg("assistant", Plain(MSG_NOT_INIT))>>,
          rag |-> NoRun, raised |-> FALSE, events |-> <<>>, history |-> hist]
    ELSE
      LET user == Msg("user", Plain(message))
          r == run_rag_pipeline(message, g[1], g[3], DefaultK, search, outcome)
          final == IF r.raised THEN Plain(r.exc)
                   ELSE final_message_content(r.answer, r.retrieved_docs)
      IN  [yields |-> << hist \o <<user, Msg("assistant", Plain(MSG_SEARCHING))>>,
                         hist \o <<user, Msg("assistant", final)>> >>,
           returned |-> <<>>, rag |-> RagRun(r), raised |-> FALSE,
           events |-> <<"yield", "run_rag_pipeline", "yield">>, history |-> hist]

respond_AppendInPlace(message, hist, g, search, outcome) ==
    IF ~AllTruthy(g)
    THEN [yields |-> <<>>,
          returned |-> hist \o <<Msg("assistant", Plain(MSG_NOT_INIT))>>,
          rag |-> NoRun, raised |-> FALSE, events |-> <<>>, history |-> hist]
    ELSE
      LET user == Msg("user", Plain(message))
          r == run_rag_pipeline(message, g[1], g[3], DefaultK, search, outcome)
          final == IF r.raised THEN Plain(MSG_INTERNAL)
                   ELSE final_message_content(r.answer, r.retrieved_docs)
          first == hist \o <<user, Msg("assistant", Plain(MSG_SEARCHING))>>
          second == first \o <<user, Msg("assistant", final)>>
      IN  [yields |-> <<first, second>>,
           returned |-> <<>>, rag |-> RagRun(r), raised |-> FALSE,
           events |-> <<"yield", "run_rag_pipeline", "yield">>, history |-> second]

\* respond(message, history) of app.py, a generator: what it yields, in order,
\* what it returns (the value of its StopIteration), the run of the RAG
\* pipeline it made, the order of its yields and of that run, and the list
\* history as the call leaves it.  g is the triple of module globals.
respond(message, hist, g, search, outcome) ==
    IF ~AllTruthy(g)
    THEN [yields |-> <<>>,
          returned |-> hist \o <<Msg("assistant", Plain(MSG_NOT_INIT))>>,
          rag |-> NoRun, raised |-> FALSE, events |-> <<>>, history |-> hist]
    ELSE
      LET user == Msg("user", Plain(message))
          r == run_rag_pipeline(message, g[1], g[3], DefaultK, search, outcome)
          final == IF r.raised THEN Plain(MSG_INTERNAL)
                   ELSE final_message_content(r.answer, r.retrieved_docs)
      IN  [yields |-> << hist \o <<user, Msg("assistant", Plain(MSG_SEARCHING))>>,
                         hist \o <<user, Msg("assistant", final)>> >>,
           returned |-> <<>>, rag |-> RagRun(r), raised |-> FALSE,
           events |-> <<"yield", "run_rag_pipeline", "yield">>, history |-> hist]

\* A text shown by the Streamlit script: a string as it is, or the streamed
\* form of an answer.
Exact(s) == [of |-> s, form |-> "exact"]

\* The strings without a word: answer.split() of them is empty.
BlankTexts == {"", "  "}

\* apps.py:101,114-118: the streamed answer is the words of the answer, each
\* followed by one space; it is the empty string when the answer has no word.
full_response_content(answer) ==
    IF answer \in BlankTexts THEN Exact("") ELSE [of |-> answer, form |-> "streamed"]

\* apps.py:66-71
EmptySession ==
    [messages |-> <<>>, last_llm_response |-> Exact(""),
     last_retrieved_sources |-> <<>>]

\* apps.py:91-128: the script run that handles a submitted prompt.  An
\* exception of the RAG run is not caught: the script run ends with it.
chat_input(prompt, sess, g, search, outcome) ==
    LET m1 == Append(sess.messages, Msg("user", Plain(Exact(prompt))))
    IN
    IF ~AllTruthy(g)
    THEN [session |-> [sess EXCEPT !.messages =
                          Append(m1, Msg("assistant", Plain(Exact(MSG_ST_NOT_LOADED))))],
          rag |-> NoRun, raised |-> FALSE]
    ELSE
      LET r == run_rag_pipeline(prompt, g[1], g[3], DefaultK, search, outcome)
          full == full_response_content(r.answer)
      IN  IF r.raised
          THEN [session |-> [sess EXCEPT !.messages = m1],
                rag |-> RagRun(r), raised |-> TRUE]
          ELSE [session |-> [messages |-> Append(m1, Msg("assistant", Plain(full))),
                             last_llm_response |-> full,
                             last_retrieved_sources |-> r.retrieved_docs],
                rag |-> RagRun(r), raised |-> FALSE]

\* apps.py:132-143: the sources area drawn below the chat on every script run
SourcesArea(sess) ==
    IF sess.last_llm_response = Exact("")
    THEN [visible |-> FALSE, sources |-> <<>>, note |-> FALSE]
    ELSE IF sess.last_retrieved_sources # <<>>
    THEN [visible |-> TRUE,
          sources |-> [i \in 1..Min(TopSources, Len(sess.last_retrieved_sources)) |->
                        [complaint_id |-> sess.last_retrieved_sources[i].metadata.complaint_id,
                         product |-> sess.last_retrieved_sources[i].metadata.product,
                         preview |-> sess.last_retrieved_sources[i].page_content]],
          note |-> FALSE]
    ELSE [visible |-> TRUE, sources |-> <<>>, note |-> TRUE]

-----------------------------------------------------------------------------
(* SpecFn: direct calls of retrieve_chunks and generate_answer *)

Stores == {None} \cup {FAISS(n) : n \in 0..MaxIndex}

ChunkLists ==
    {Take(FAISS(MaxIndex).docs, n) : n \in 0..MaxIndex}
        \cup {Take(Reverse(FAISS(MaxIndex).docs), n) : n \in 1..MaxIndex}

NoCallYet == [fn |-> "none"]

\* The values the variables of the other specifications keep.
ServingIdle ==
    /\ env = None /\ ui = "none" /\ pc = "off"
    /\ db = None /\ embeddings = None /\ llm_pipeline = None
    /\ history = <<>> /\ shown = <<>> /\ session = EmptySession
    /\ last = NoRun /\ nq = 0 /\ failed = FALSE /\ loaded = NoneTriple

OfflineIdle == fs = None /\ stage = None

servingVars == <<env, ui, pc, db, embeddings, llm_pipeline, history, shown,
                 session, last, nq, failed, loaded>>

offlineVars == <<fs, stage>>

InitFn == call = NoCallYet /\ ServingIdle /\ OfflineIdle

CallGenerateAnswer ==
    \E q \in Questions, chunks \in ChunkLists, llm \in {None, Pipeline},
       o \in GenOutcomes :
        /\ call' = [fn |-> "generate_answer", question |-> q,
                    context_chunks |-> chunks, llm_pipeline |-> llm, outcome |-> o,
                    res |-> generate_answer(q, chunks, llm, o)]
        /\ UNCHANGED <<servingVars, offlineVars>>

CallRetrieveChunks ==
    \E q \in Questions, store \in Stores, k \in 1..MaxK, s \in SearchOutcomes :
        /\ call' = [fn |-> "retrieve_chunks", question |-> q, db |-> store,
                    k |-> k, search |-> s,
                    res |-> retrieve_chunks(q, store, k, s)]
        /\ UNCHANGED <<servingVars, offlineVars>>

NextFn == CallGenerateAnswer \/ CallRetrieveChunks

SpecFn == InitFn /\ [][NextFn]_vars

-----------------------------------------------------------------------------
(* Spec: a serving process *)

Init ==
    /\ call = NoCallYet /\ OfflineIdle
    /\ env \in Envs
    /\ ui \in {"gradio", "streamlit"}
    /\ pc = "start"
    /\ db = None /\ embeddings = None /\ llm_pipeline = None
    /\ history = <<>> /\ shown = <<>> /\ session = EmptySession
    /\ last = NoRun /\ nq = 0 /\ failed = FALSE /\ loaded = NoneTriple

\* app.py:18-31 / apps.py:28-44: the components are loaded once, at start-up.
\* An exception of load_components would end the process.
Start ==
    /\ pc = "start"
    /\ LET r == load_components(env)
           g == module_init(r.ret)
       IN  /\ loaded' = r
           /\ pc' = IF r.raised THEN "crashed" ELSE "serving"
           /\ db' = g[1] /\ embeddings' = g[2] /\ llm_pipeline' = g[3]
    /\ UNCHANGED <<call, env, ui, history, shown, session, last, nq, failed,
                   offlineVars>>

\* A message submitted to the Gradio chat (app.py:91-107): the chatbot calls
\* respond with the history it holds, shows each update respond yields, each
\* replacing the one before, and keeps the last as its history.  What respond
\* returns is not shown: the value of a generator's return is dropped.
GradioQuery ==
    /\ pc = "serving" /\ ui = "gradio" /\ nq < MaxQueries
    /\ \E message \in Questions, s \in SearchOutcomes, o \in GenOutcomes :
         LET r == respond(message, history, <<db, embeddings, llm_pipeline>>, s, o)
         IN  /\ shown' = r.yields
             /\ history' = IF r.yields = <<>> THEN history
                           ELSE r.yields[Len(r.yields)]
             /\ last' = [ran |-> TRUE, message |-> message, hist_in |-> history,
                         rag |-> r.rag, propagated |-> r.raised,
                         events |-> r.events, hist_after |-> r.history]
             /\ failed' = (failed \/ (r.rag.ran /\ r.rag.raised))
    /\ nq' = nq + 1
    /\ UNCHANGED <<call, env, ui, pc, db, embeddings, llm_pipeline, session,
                   loaded, offlineVars>>

\* A prompt submitted to the Streamlit chat (apps.py:91-128).
StreamlitQuery ==
    /\ pc = "serving" /\ ui = "streamlit" /\ nq < MaxQueries
    /\ \E prompt \in Questions, s \in SearchOutcomes, o \in GenOutcomes :
         LET r == chat_input(prompt, session, <<db, embeddings, llm_pipeline>>, s, o)
         IN  /\ session' = r.session
             /\ last' = [ran |-> TRUE, message |-> prompt, hist_in |-> session.messages,
                         rag |-> r.rag, propagated |-> r.raised]
             /\ failed' = (failed \/ (r.rag.ran /\ r.rag.raised))
    /\ nq' = nq + 1
    /\ UNCHANGED <<call, env, ui, pc, db, embeddings, llm_pipeline, history,
                   shown, loaded, offlineVars>>

\* apps.py:79-86: the Clear Chat button
clear_chat_history ==
    /\ pc = "serving" /\ ui = "streamlit" /\ session # EmptySession
    /\ session' = EmptySession
    /\ last' = NoRun
    /\ UNCHANGED <<call, env, ui, pc, db, embeddings, llm_pipeline, history,
                   shown, nq, failed, loaded, offlineVars>>

Next == Start \/ GradioQuery \/ StreamlitQuery \/ clear_chat_history

Spec == Init /\ [][Next]_vars

-----------------------------------------------------------------------------
(* Texts of the offline stages: a text is the sequence of its characters *)

UpperChars ==
    <<"A", "B", "C", "D", "E", "F", "G", "H", "I", "J", "K", "L", "M",
      "N", "O", "P", "Q", "R", "S", "T", "U", "V", "W", "X", "Y", "Z">>

LowerChars ==
    <<"a", "b", "c", "d", "e", "f", "g", "h", "i", "j", "k", "l", "m",
      "n", "o", "p", "q", "r", "s", "t", "u", "v", "w", "x", "y", "z">>

Digits == {"0", "1", "2", "3", "4", "5", "6", "7", "8", "9"}

Range(s) == {s[i] : i \in 1..Len(s)}

\* the characters the regular expression class \s matches
IsSpace(c) == c \in {" ", "\t", "\n", "\r"}

IsAlnum(c) == c \in Range(UpperChars) \cup Range(LowerChars) \cup Digits

\* str.lower() of one character
LowerChar(c) ==
    IF c \in Range(UpperChars)
    THEN LowerChars[CHOOSE k \in 1..Len(UpperChars) : UpperChars[k] = c]
    ELSE c

\* str.lower()
lower(text) == [i \in 1..Len(text) |-> LowerChar(text[i])]

MatchesAt(pattern, text, i) ==
    /\ i + Len(pattern) - 1 <= Len(text)
    /\ \A j \in 1..Len(pattern) : text[i + j - 1] = pattern[j]

\* the first occurrence of pattern in text at or after position i, 0 if none
NextMatch(pattern, text, i) ==
    LET at == {j \in i..(Len(text) - Len(pattern) + 1) : MatchesAt(pattern, text, j)}
    IN  IF at = {} THEN 0 ELSE CHOOSE j \in at : \A k \in at : j <= k

RECURSIVE RemoveFrom(_, _, _)
RemoveFrom(pattern, text, i) ==
    LET j == NextMatch(pattern, text, i)
    IN  IF j = 0 THEN SubSeq(text, i, Len(text))
        ELSE SubSeq(text, i, j - 1) \o RemoveFrom(pattern, text, j + Len(pattern))

\* re.sub(pattern, '', text) for a pattern without metacharacters: every
\* occurrence, found from left to right, is removed.
re_sub_literal(pattern, text) == RemoveFrom(pattern, text, 1)

Positions(text) == [i \in 1..Len(text) |-> i]

\* re.sub(r'\s+', ' ', text): of every run of whitespace the first character
\* stays, as one space
collapse_whitespace(text) ==
    LET kept == SelectSeq(Positions(text),
                   LAMBDA i : ~IsSpace(text[i]) \/ i = 1 \/ ~IsSpace(text[i - 1]))
    IN  [n \in 1..Len(kept) |->
            IF IsSpace(text[kept[n]]) THEN " " ELSE text[kept[n]]]

\* str.strip(): from the first to the last character that is not whitespace
strip(text) ==
    LET solid == {i \in 1..Len(text) : ~IsSpace(text[i])}
    IN  IF solid = {} THEN <<>>
        ELSE SubSeq(text,
                    CHOOSE i \in solid : \A k \in 1..(i - 1) : IsSpace(text[k]),
                    CHOOSE i \in solid : \A k \in (i + 1)..Len(text) : IsSpace(text[k]))

\* len(x.split()): the number of maximal runs of characters that are not
\* whitespace
word_count(text) ==
    Cardinality({i \in 1..Len(text) :
                    ~IsSpace(text[i]) /\ (i = 1 \/ IsSpace(text[i - 1]))})

\* prep.py:153-166
boilerplate_patterns ==
    << <<"c","o","n","s","u","m","e","r"," ","c","o","m","p","l","a","i","n",
        "t"," ","n","a","r","r","a","t","i","v","e">>,
       <<"t","h","e"," ","f","o","l","l","o","w","i","n","g"," ","i","s"," ",
        "a"," ","n","a","r","r","a","t","i","v","e"," ","t","h","a","t"," ",
        "w","a","s"," ","p","r","o","v","i","d","e","d"," ","b","y"," ","t",
        "h","e"," ","c","o","n","s","u","m","e","r"," ","t","o"," ","t","h",
        "e"," ","c","f","p","b">>,
       <<"i"," ","a","m"," ","w","r","i","t","i","n","g"," ","t","o"," ","f",
        "i","l","e"," ","a"," ","c","o","m","p","l","a","i","n","t">>,
       <<"i"," ","a","m"," ","w","r","i","t","i","n","g"," ","t","o"," ","e",
        "x","p","r","e","s","s"," ","m","y"," ","c","o","n","c","e","r","n">>,
       <<"t","h","i","s"," ","l","e","t","t","e","r"," ","i","s"," ","t","o",
        " ","i","n","f","o","r","m"," ","y","o","u">>,
       <<"t","o"," ","w","h","o","m"," ","i","t"," ","m","a","y"," ","c","o",
        "n","c","e","r","n">>,
       <<"t","h","i","s"," ","c","o","m","p","l","a","i","n","t"," ","i","s",
        " ","r","e","g","a","r","d","i","n","g">>,
       <<"i"," ","w","o","u","l","d"," ","l","i","k","e"," ","t","o"," ","r",
        "e","p","o","r","t">>,
       <<"i"," ","w","o","u","l","d"," ","l","i","k","e"," ","t","o"," ","f",
        "i","l","e"," ","a"," ","c","o","m","p","l","a","i","n","t">>,
       <<"i"," ","w","o","u","l","d"," ","l","i","k","e"," ","t","o"," ","c",
        "o","m","p","l","a","i","n">>,
       <<"i"," ","a","m"," ","w","r","i","t","i","n","g"," ","y","o","u"," ",
        "t","h","i","s"," ","l","e","t","t","e","r"," ","t","o"," ","i","n",
        "f","o","r","m"," ","y","o","u">>,
       <<"i"," ","a","m"," ","w","r","i","t","i","n","g"," ","t","h","i","s",
        " ","l","e","t","t","e","r"," ","t","o"," ","y","o","u"," ","f","o",
        "r"," ","t","h","e"," ","r","e","a","s","o","n"," ","o","f">> >>

RECURSIVE RemovePatterns(_, _, _)
RemovePatterns(patterns, text, n) ==
    IF n > Len(patterns) THEN text
    ELSE RemovePatterns(patterns, re_sub_literal(patterns[n], text), n + 1)

\* prep.py:141-173: clean_text of run_preprocessing
prep_clean_text(text) ==
    LET lowered == lower(text)
        no_boilerplate == RemovePatterns(boilerplate_patterns, lowered, 1)
        kept == SelectSeq(no_boilerplate, LAMBDA c : IsAlnum(c) \/ IsSpace(c))
    IN  strip(collapse_whitespace(kept))

-----------------------------------------------------------------------------
(* Tables: a CSV file read into a DataFrame *)

\* numpy.nan, the cell of a missing value
NaN == <<"float('nan')">>

ID == "Complaint ID"
PRODUCT == "Product"
NARRATIVE == "Consumer complaint narrative"
CLEANED == "Cleaned_Narrative"

\* A row over the columns cols; the cells of the other columns do not exist.
Row(cols, id, product, narrative) ==
    [c \in cols |-> IF c = ID THEN id
                    ELSE IF c = PRODUCT THEN product
                    ELSE narrative]

Table(cols, rows) == [state |-> "table", cols |-> cols, rows |-> rows]

Missing == [state |-> "missing"]

\* a file that exists and cannot be read or parsed
Unreadable == [state |-> "unreadable"]

\* a file of zero bytes: read_csv raises EmptyDataError
ZeroBytes == [state |-> "empty"]

\* prep.py:44-102: the rows of the dummy DataFrame, their Complaint ID,
\* Product and Consumer complaint narrative
DummyRows ==
    << <<1, "Credit card", <<"M","y"," ","c","r","e","d","i","t"," ","c","a","r","d"," ","i","n",
        "t","e","r","e","s","t"," ","r","a","t","e"," ","w","a","s"," ","i",
        "n","c","r","e","a","s","e","d"," ","w","i","t","h","o","u","t"," ",
        "p","r","o","p","e","r"," ","n","o","t","i","f","i","c","a","t","i",
        "o","n","."," ","T","h","i","s"," ","i","s"," ","a","f","f","e","c",
        "t","i","n","g"," ","m","y"," ","a","b","i","l","i","t","y"," ","t",
        "o"," ","p","a","y"," ","o","f","f"," ","t","h","e"," ","b","a","l",
        "a","n","c","e",".">>>>,
       <<2, "Personal loan", <<"I"," ","w","a","s"," ","a","p","p","r","o","v","e","d"," ","f","o",
        "r"," ","a"," ","p","e","r","s","o","n","a","l"," ","l","o","a","n",
        " ","b","u","t"," ","t","h","e"," ","f","u","n","d","s"," ","w","e",
        "r","e"," ","n","e","v","e","r"," ","d","i","s","b","u","r","s","e",
        "d",".">>>>,
       <<3, "Mortgage", <<"I"," ","a","p","p","l","i","e","d"," ","f","o","r"," ","a"," ","m",
        "o","r","t","g","a","g","e"," ","r","e","f","i","n","a","n","c","e",
        " ","a","n","d"," ","t","h","e"," ","p","r","o","c","e","s","s"," ",
        "h","a","s"," ","b","e","e","n"," ","e","x","t","r","e","m","e","l",
        "y"," ","s","l","o","w"," ","a","n","d"," ","u","n","c","o","m","m",
        "u","n","i","c","a","t","i","v","e",".">>>>,
       <<4, "Credit card", <<"T","h","i","s"," ","i","s"," ","a"," ","s","h","o","r","t"," ","c",
        "r","e","d","i","t"," ","c","a","r","d"," ","c","o","m","p","l","a",
        "i","n","t"," ","a","b","o","u","t"," ","a"," ","b","i","l","l","i",
        "n","g"," ","e","r","r","o","r","."," ","I"," ","a","m"," ","w","r",
        "i","t","i","n","g"," ","t","o"," ","f","i","l","e"," ","a"," ","c",
        "o","m","p","l","a","i","n","t",".">>>>,
       <<5, "Student loan", <<"M","y"," ","s","t","u","d","e","n","t"," ","l","o","a","n"," ","s",
        "e","r","v","i","c","e","r"," ","h","a","s"," ","m","i","s","a","p",
        "p","l","i","e","d"," ","p","a","y","m","e","n","t","s"," ","l","e",
        "a","d","i","n","g"," ","t","o"," ","h","i","g","h","e","r"," ","i",
        "n","t","e","r","e","s","t"," ","c","h","a","r","g","e","s",".">>>>,
       <<6, "Buy Now, Pay Later (BNPL)", <<"I"," ","a","m"," ","h","a","v","i","n","g"," ","t","r","o","u","b",
        "l","e"," ","w","i","t","h"," ","a"," ","B","N","P","L"," ","p","a",
        "y","m","e","n","t"," ","p","l","a","n","."," ","T","h","e"," ","a",
        "u","t","o","-","d","e","b","i","t"," ","f","a","i","l","e","d"," ",
        "f","o","r"," ","n","o"," ","r","e","a","s","o","n"," ","a","n","d",
        " ","n","o","w"," ","I","'","m"," ","b","e","i","n","g"," ","c","h",
        "a","r","g","e","d"," ","l","a","t","e"," ","f","e","e","s",".">>>>,
       <<7, "Savings account", NaN>>,
       <<8, "Money transfers", <<"M","y"," ","i","n","t","e","r","n","a","t","i","o","n","a","l"," ",
        "m","o","n","e","y"," ","t","r","a","n","s","f","e","r"," ","w","a",
        "s"," ","d","e","l","a","y","e","d"," ","b","y"," ","o","v","e","r",
        " ","t","w","o"," ","w","e","e","k","s"," ","w","i","t","h"," ","n",
        "o"," ","e","x","p","l","a","n","a","t","i","o","n",".">>>>,
       <<9, "Credit reporting, credit repair services, or other personal consumer reports", <<"C","r","e","d","i","t"," ","r","e","p","o","r","t"," ","e","r","r",
        "o","r",".">>>>,
       <<10, "Credit card", <<"U","n","a","u","t","h","o","r","i","z","e","d"," ","c","h","a","r",
        "g","e","s"," ","a","p","p","e","a","r","e","d"," ","o","n"," ","m",
        "y"," ","c","r","e","d","i","t"," ","c","a","r","d"," ","s","t","a",
        "t","e","m","e","n","t","."," ","T","h","e"," ","f","o","l","l","o",
        "w","i","n","g"," ","i","s"," ","a"," ","n","a","r","r","a","t","i",
        "v","e"," ","p","r","o","v","i","d","e","d"," ","b","y"," ","t","h",
        "e"," ","c","o","n","s","u","m","e","r",":"," ","I"," ","a","m"," ",
        "w","r","i","t","i","n","g"," ","t","o"," ","e","x","p","r","e","s",
        "s"," ","m","y"," ","c","o","n","c","e","r","n"," ","a","b","o","u",
        "t"," ","t","h","e","s","e"," ","c","h","a","r","g","e","s",".">>>>,
       <<11, "Savings account", <<"I"," ","n","o","t","i","c","e","d"," ","u","n","a","u","t","h","o",
        "r","i","z","e","d"," ","a","c","t","i","v","i","t","y"," ","o","n",
        " ","m","y"," ","s","a","v","i","n","g","s"," ","a","c","c","o","u",
        "n","t","."," ","T","o"," ","w","h","o","m"," ","i","t"," ","m","a",
        "y"," ","c","o","n","c","e","r","n",".">>>>,
       <<12, "Personal loan", <<"I"," ","n","e","e","d"," ","h","e","l","p"," ","w","i","t","h"," ",
        "m","y"," ","p","e","r","s","o","n","a","l"," ","l","o","a","n",".",
        " ","I"," ","w","o","u","l","d"," ","l","i","k","e"," ","t","o"," ",
        "f","i","l","e"," ","a"," ","c","o","m","p","l","a","i","n","t",".">>>>,
       <<13, "Bank account or service", <<"I"," ","h","a","v","e"," ","a","n"," ","i","s","s","u","e"," ","w",
        "i","t","h"," ","m","y"," ","b","a","n","k"," ","a","c","c","o","u",
        "n","t",".">>>> >>

RawCols == {ID, PRODUCT, NARRATIVE}

\* the columns of the dummy DataFrame the stage reads
DummyDataFrame ==
    Table(RawCols,
          [i \in 1..Len(DummyRows) |->
              Row(RawCols, DummyRows[i][1], DummyRows[i][2], DummyRows[i][3])])

-----------------------------------------------------------------------------
(* prep.py: run_preprocessing *)

\* prep.py:124-130
target_products ==
    {"Credit card", "Personal loan", "Buy Now, Pay Later (BNPL)",
     "Savings account", "Money transfers"}

\* prep.py:189
columns_to_save == {ID, PRODUCT, CLEANED}

\* How a stage run ends: the files after it, "returned" early with a printed
\* diagnostic, "completed", or "raised" (an uncaught exception, with its
\* traceback), and whether it wrote its output.
StageEnd(fsys, outcome, diag, wrote) ==
    [fs |-> fsys, outcome |-> outcome, diag |-> diag, wrote |-> wrote]

\* prep.py:132-185: the rows kept, each with its cleaned narrative
prep_rows(df) ==
    LET wanted == SelectSeq(df.rows,
                     LAMBDA r : r[PRODUCT] \in target_products /\ r[NARRATIVE] # NaN)
        cleaned == [i \in 1..Len(wanted) |->
                      [c \in df.cols \cup {CLEANED} |->
                          IF c = CLEANED THEN prep_clean_text(wanted[i][NARRATIVE])
                          ELSE wanted[i][c]]]
    IN  SelectSeq(cleaned, LAMBDA r : Len(strip(r[CLEANED])) > 0)

\* prep.py:187-201: the file written, with the columns of columns_to_save
\* that the frame has
prep_output(df) ==
    LET out_cols == {c \in columns_to_save : c \in df.cols \cup {CLEANED}}
        rows == prep_rows(df)
    IN  Table(out_cols, [i \in 1..Len(rows) |-> [c \in out_cols |-> rows[i][c]]])

\* prep.py:111-202: from the loaded frame on
prep_process(fsys, df) ==
    IF df.rows = <<>>
    THEN StageEnd(fsys, "returned", "No data loaded or DataFrame is empty.", FALSE)
    ELSE IF NARRATIVE \notin df.cols
    THEN StageEnd(fsys, "returned", "'Consumer complaint narrative' column not found", FALSE)
    ELSE IF PRODUCT \notin df.cols
    THEN StageEnd(fsys, "raised", "KeyError: 'Product'", FALSE)
    ELSE StageEnd([fsys EXCEPT !.filtered = prep_output(df)], "completed",
                  IF columns_to_save \subseteq df.cols \cup {CLEANED}
                  THEN "Cleaned and filtered dataset saved"
                  ELSE "Warning: required columns are missing before saving",
                  TRUE)

\* prep.py:8-202: run_preprocessing(); mk is the outcome of os.makedirs when
\* the output directory does not exist.
prep_run_preprocessing(fsys, mk) ==
    IF ~fsys.filtered_dir /\ mk = "OSError"
    THEN StageEnd(fsys, "returned", "Error creating output directory", FALSE)
    ELSE
      LET f1 == [fsys EXCEPT !.filtered_dir = TRUE]
      IN  CASE fsys.raw.state = "missing" -> prep_process(f1, DummyDataFrame)
            [] fsys.raw.state = "empty" ->
                 StageEnd(f1, "returned", "is empty. No data to process.", FALSE)
            [] fsys.raw.state = "unreadable" ->
                 StageEnd(f1, "returned", "An unexpected error occurred while loading", FALSE)
            [] OTHER -> prep_process(f1, fsys.raw)

-----------------------------------------------------------------------------
(* embed_and_index.py:73-96: RecursiveCharacterTextSplitter over a cleaned *)
(* narrative.  A cleaned narrative is words joined by single spaces; it is *)
(* described by the lengths of its words, and a piece or a chunk of it by  *)
(* the offset of its first character and its length.                       *)

RECURSIVE Sum(_, _)
Sum(lens, n) == IF n = 0 THEN 0 ELSE lens[n] + Sum(lens, n - 1)

\* len(narrative) of the narrative of these words
TextLen(words) ==
    IF words = <<>> THEN 0 ELSE Sum(words, Len(words)) + Len(words) - 1

\* the offset of the first character of the k-th word
WordStart(words, k) == Sum(words, k - 1) + k - 1

Slice(start, len) == [start |-> start, len |-> len]

SliceEnd(s) == s.start + s.len

\* The split at the separator " " with keep_separator: the first word, then
\* every further word with the space before it.  A narrative of one word
\* has no " " and is split into its characters, which are merged again as
\* the one piece is.
split_text_with_regex(words) ==
    [k \in 1..Len(words) |->
        IF k = 1 THEN Slice(0, words[1])
        ELSE Slice(WordStart(words, k) - 1, words[k] + 1)]

\* _join_docs of the pieces a..b: they are joined with "" and the text is
\* stripped, which removes the space a piece other than the first starts with
join_docs(pieces, a, b) ==
    LET lead == IF pieces[a].start = 0 THEN 0 ELSE 1
    IN  Slice(pieces[a].start + lead, SliceEnd(pieces[b]) - pieces[a].start - lead)

\* the loop that drops pieces from the front of current_doc = pieces[a..b]
\* when the piece of length next_len does not fit: while total > chunk_overlap
\* or (total + next_len > chunk_size and total > 0)
RECURSIVE PopFront(_, _, _, _, _)
PopFront(pieces, a, b, total, next_len) ==
    IF a <= b /\ (total > ChunkOverlap \/ (total + next_len > ChunkSize /\ total > 0))
    THEN PopFront(pieces, a + 1, b, total - pieces[a].len, next_len)
    ELSE [a |-> a, total |-> total]

\* _merge_splits from the piece k on, current_doc being pieces[a..k-1] of
\* length total, with the chunks docs made so far
RECURSIVE MergeFrom(_, _, _, _, _)
MergeFrom(pieces, k, a, total, docs) ==
    IF k > Len(pieces)
    THEN IF a <= Len(pieces) THEN Append(docs, join_docs(pieces, a, Len(pieces)))
         ELSE docs
    ELSE IF total + pieces[k].len > ChunkSize /\ a <= k - 1
    THEN LET popped == PopFront(pieces, a, k - 1, total, pieces[k].len)
         IN  MergeFrom(pieces, k + 1, popped.a, popped.total + pieces[k].len,
                       Append(docs, join_docs(pieces, a, k - 1)))
    ELSE MergeFrom(pieces, k + 1, a, total + pieces[k].len, docs)

merge_splits(pieces) == MergeFrom(pieces, 1, 1, 0, <<>>)

\* A piece of chunk_size characters or more is split again, into characters,
\* and the characters are merged: chunks of chunk_size characters, each
\* starting chunk_overlap characters before the end of the one before.
split_characters(piece) ==
    LET stride == ChunkSize - ChunkOverlap
        final == CHOOSE j \in 0..piece.len :
                   /\ stride * j + ChunkSize >= piece.len
                   /\ \A m \in 0..(j - 1) : stride * m + ChunkSize < piece.len
        lead(j) == IF j = 0 /\ piece.start # 0 THEN 1 ELSE 0
    IN  [n \in 1..(final + 1) |->
            Slice(piece.start + stride * (n - 1) + lead(n - 1),
                  Min(ChunkSize, piece.len - stride * (n - 1)) - lead(n - 1))]

\* _split_text from the piece k on; good is the index of the first of the
\* pieces shorter than chunk_size collected in _good_splits
RECURSIVE SplitFrom(_, _, _)
SplitFrom(pieces, k, good) ==
    IF k > Len(pieces)
    THEN IF good <= Len(pieces)
         THEN merge_splits(SubSeq(pieces, good, Len(pieces))) ELSE <<>>
    ELSE IF pieces[k].len < ChunkSize THEN SplitFrom(pieces, k + 1, good)
    ELSE (IF good < k THEN merge_splits(SubSeq(pieces, good, k - 1)) ELSE <<>>)
             \o split_characters(pieces[k])
             \o SplitFrom(pieces, k + 1, k + 1)

\* text_splitter.split_text(narrative): the chunks, in order
split_text(words) == SplitFrom(split_text_with_regex(words), 1, 1)

-----------------------------------------------------------------------------
(* embed_and_index.py: run_embedding_and_indexing *)

\* The strings pandas.read_csv reads as a missing value, among those a cell of
\* a written table can hold.
na_values ==
    { <<>>, <<"n","a","n">>, <<"n","u","l","l">>, <<"N","a","N">>, <<"N","U","L","L">>, <<"N","A">>, <<"N","/","A">>,
      <<"n","/","a">>, <<"N","o","n","e">>, <<"<","N","A",">">>, <<"#","N","/","A">> }

\* pd.read_csv of a written table: a text cell that spells a missing value is
\* read as NaN
read_csv(file) ==
    Table(file.cols,
          [i \in 1..Len(file.rows) |->
              [c \in file.cols |->
                  IF c \in {NARRATIVE, CLEANED} /\ file.rows[i][c] \in na_values
                  THEN NaN ELSE file.rows[i][c]]])

\* Cells that are not text: NaN, and the numbers of a column pandas read as
\* numeric.  A text is a tuple of characters; a cell that is not text is a
\* tuple that starts with the name of its type, and a number carries the text
\* str() gives for it.
Number(repr) == <<"number">> \o repr

Numbers == {Number(<<"1","2","3","4","5">>), Number(<<"0",".","5">>)}

\* isinstance(x, str)
IsStr(x) == x # NaN /\ x \notin Numbers

\* str(cell), astype(str) of a cell
str(cell) ==
    IF cell = NaN THEN <<"n","a","n">>
    ELSE IF cell \in Numbers THEN Tail(cell)
    ELSE cell

\* embed_and_index.py:62
required_cols == {CLEANED, ID, PRODUCT}

\* the lengths of the words of a narrative, words joined by single spaces
word_lengths(text) ==
    LET starts == SelectSeq(Positions(text),
                     LAMBDA i : text[i] # " " /\ (i = 1 \/ text[i - 1] = " "))
        ends == SelectSeq(Positions(text),
                   LAMBDA i : text[i] # " " /\ (i = Len(text) \/ text[i + 1] = " "))
    IN  [k \in 1..Len(starts) |-> ends[k] - starts[k] + 1]

\* text.find(chunk, from): the offset of the first occurrence of chunk in
\* text at or after the offset from, -1 when there is none
find(text, chunk, from) == NextMatch(chunk, text, from + 1) - 1

\* add_start_index=True: the start_index of the chunks n.. of text, the chunk
\* before having been found at index with previous_chunk_len characters
RECURSIVE StartIndexes(_, _, _, _, _)
StartIndexes(text, chunks, n, index, previous_chunk_len) ==
    IF n > Len(chunks) THEN <<>>
    ELSE LET offset == index + previous_chunk_len - ChunkOverlap
             at == find(text, chunks[n], IF offset > 0 THEN offset ELSE 0)
         IN  <<at>> \o StartIndexes(text, chunks, n + 1, at, Len(chunks[n]))

\* embed_and_index.py:73-78,96: text_splitter.split_documents([doc]): one
\* Document for each chunk of the text, with a copy of the metadata of doc
\* and the start_index of the chunk
split_documents(doc) ==
    LET text == doc.page_content
        slices == split_text(word_lengths(text))
        chunks == [n \in 1..Len(slices) |->
                      SubSeq(text, slices[n].start + 1, SliceEnd(slices[n]))]
        starts == StartIndexes(text, chunks, 1, 0, 0)
    IN  [n \in 1..Len(chunks) |->
            [page_content |-> chunks[n],
             metadata |->
                [complaint_id |-> doc.metadata.complaint_id,
                 product |-> doc.metadata.product,
                 original_text_length |-> doc.metadata.original_text_length,
                 start_index |-> starts[n]]]]

\* embed_and_index.py:88-95
Document(row, narrative) ==
    [page_content |-> narrative,
     metadata |-> [complaint_id |-> row[ID], product |-> row[PRODUCT],
                   original_text_length |-> Len(narrative)]]

RECURSIVE ChunksFrom_FirstRowMetadata(_, _)
ChunksFrom_FirstRowMetadata(df, i) ==
    IF i > Len(df.rows) THEN <<>>
    ELSE LET narrative == strip(str(df.rows[i][CLEANED]))
         IN  IF narrative # <<>>
             THEN split_documents(Document(df.rows[1], narrative))
                      \o ChunksFrom_FirstRowMetadata(df, i + 1)
             ELSE ChunksFrom_FirstRowMetadata(df, i + 1)

\* embed_and_index.py:82-97: the chunks of the rows df.rows[i..]
RECURSIVE ChunksFrom(_, _)
ChunksFrom(df, i) ==
    IF i > Len(df.rows) THEN <<>>
    ELSE LET narrative == strip(str(df.rows[i][CLEANED]))
         IN  IF narrative # <<>>
             THEN split_documents(Document(df.rows[i], narrative))
                      \o ChunksFrom(df, i + 1)
             ELSE ChunksFrom(df, i + 1)

\* embed_and_index.py:82-100: the loop over the rows of the frame: the chunks
\* made and the number of narratives counted as processed
chunk_narratives(df) ==
    [documents |-> ChunksFrom(df, 1),
     processed_narratives_count |->
         Cardinality({i \in 1..Len(df.rows) : strip(str(df.rows[i][CLEANED])) # <<>>})]

NoIndex == [state |-> "missing"]

\* a saved index: index.faiss and index.pkl over the documents
SavedIndex(documents) == [state |-> "complete", docs |-> documents]

\* what save_local leaves when it fails after writing index.faiss
PartialIndex(documents) == [state |-> "partial", docs |-> documents]

\* How the library calls of a run end: os.makedirs, loading the embedding
\* model, FAISS.from_documents, db.save_local.
IndexerOutcomes ==
    [mk : {"ok", "OSError"}, emb : LoadOutcomes, build : {"ok", "raises"},
     save : {"ok", "raises_before_writing", "raises_while_writing"}]

index_process_RewritesInput(fsys, df, o) ==
    IF df.rows = <<>>
    THEN StageEnd(fsys, "returned", "Loaded DataFrame is empty.", FALSE)
    ELSE IF ~(required_cols \subseteq df.cols)
    THEN StageEnd(fsys, "returned", "Missing required columns", FALSE)
    ELSE
      LET documents == ChunksFrom(df, 1)
          kept == Table(df.cols,
                        SelectSeq(df.rows, LAMBDA r : strip(str(r[CLEANED])) # <<>>))
          f1 == [fsys EXCEPT !.filtered = kept]
      IN  IF documents = <<>>
          THEN StageEnd(f1, "returned", "No chunks generated.", FALSE)
          ELSE IF o.emb # "ok"
          THEN StageEnd(f1, "returned", "Error loading embedding model", FALSE)
          ELSE IF o.build = "raises" \/ o.save = "raises_before_writing"
          THEN StageEnd(f1, "returned", "error during FAISS indexing or saving", FALSE)
          ELSE IF o.save = "raises_while_writing"
          THEN StageEnd([f1 EXCEPT !.index = PartialIndex(documents)], "returned",
                        "error during FAISS indexing or saving", TRUE)
          ELSE StageEnd([f1 EXCEPT !.index = SavedIndex(documents)], "completed",
                        "FAISS vector store persisted", TRUE)

\* embed_and_index.py:55-147: from the loaded frame on
index_process(fsys, df, o) ==
    IF df.rows = <<>>
    THEN StageEnd(fsys, "returned", "Loaded DataFrame is empty.", FALSE)
    ELSE IF ~(required_cols \subseteq df.cols)
    THEN StageEnd(fsys, "returned", "Missing required columns", FALSE)
    ELSE
      LET documents == ChunksFrom(df, 1)
      IN  IF documents = <<>>
          THEN StageEnd(fsys, "returned", "No chunks generated.", FALSE)
          ELSE IF o.emb # "ok"
          THEN StageEnd(fsys, "returned", "Error loading embedding model", FALSE)
          ELSE IF o.build = "raises" \/ o.save = "raises_before_writing"
          THEN StageEnd(fsys, "returned", "error during FAISS indexing or saving", FALSE)
          ELSE IF o.save = "raises_while_writing"
          THEN StageEnd([fsys EXCEPT !.index = PartialIndex(documents)], "returned",
                        "error during FAISS indexing or saving", TRUE)
          ELSE StageEnd([fsys EXCEPT !.index = SavedIndex(documents)], "completed",
                        "FAISS vector store persisted", TRUE)

\* embed_and_index.py:10-149: run_embedding_and_indexing()
run_embedding_and_indexing(fsys, o) ==
    IF ~fsys.vector_dir /\ o.mk = "OSError"
    THEN StageEnd(fsys, "returned", "Error creating vector_store directory", FALSE)
    ELSE
      LET f1 == [fsys EXCEPT !.vector_dir = TRUE]
      IN  CASE fsys.filtered.state = "missing" ->
                 StageEnd(f1, "returned", "Cleaned and filtered data not found.", FALSE)
            [] fsys.filtered.state = "empty" ->
                 StageEnd(f1, "returned", "is empty. No data to process.", FALSE)
            [] fsys.filtered.state = "unreadable" ->
                 StageEnd(f1, "returned", "An unexpected error occurred while loading", FALSE)
            [] OTHER -> index_process(f1, read_csv(fsys.filtered), o)

-----------------------------------------------------------------------------
(* complaints_modular_cleaning_eda.py and preprocessing.py: category mapping *)

\* needle in hay, of two strings
Contains(needle, hay) ==
    \E i \in 1..(Len(hay) - Len(needle) + 1) : MatchesAt(needle, hay, i)

\* complaints_modular_cleaning_eda.py:42-48, in the order of the dict
TARGET_PRODUCTS ==
    << [standardized |-> <<"C","r","e","d","i","t"," ","c","a","r","d">>,
        variants |-> <<<<"c","r","e","d","i","t"," ","c","a","r","d">>, <<"p","r","e","p","a","i","d"," ","c","a","r","d">>>>],
       [standardized |-> <<"P","e","r","s","o","n","a","l"," ","l","o","a","n">>,
        variants |-> <<<<"p","e","r","s","o","n","a","l"," ","l","o","a","n">>, <<"c","o","n","s","u","m","e","r"," ","l","o","a","n">>>>],
       [standardized |-> <<"B","u","y"," ","N","o","w",","," ","P","a","y"," ","L","a","t","e","r">>,
        variants |-> <<<<"b","u","y"," ","n","o","w"," ","p","a","y"," ","l","a","t","e","r">>, <<"b","n","p","l">>>>],
       [standardized |-> <<"S","a","v","i","n","g","s"," ","a","c","c","o","u","n","t">>,
        variants |-> <<<<"s","a","v","i","n","g","s"," ","a","c","c","o","u","n","t">>, <<"b","a","n","k"," ","a","c","c","o","u","n","t">>>>],
       [standardized |-> <<"M","o","n","e","y"," ","t","r","a","n","s","f","e","r">>,
        variants |-> <<<<"m","o","n","e","y"," ","t","r","a","n","s","f","e","r">>, <<"w","i","r","e"," ","t","r","a","n","s","f","e","r">>>>] >>

\* any(variant in product for variant in variants)
AnyVariantIn(variants, product) ==
    \E n \in 1..Len(variants) : Contains(variants[n], product)

filter_products_LastWins(raw) ==
    LET product == lower(str(raw))
        hits == {n \in 1..Len(TARGET_PRODUCTS) :
                    AnyVariantIn(TARGET_PRODUCTS[n].variants, product)}
    IN  IF hits = {} THEN None
        ELSE TARGET_PRODUCTS[CHOOSE n \in hits : \A m \in hits : m <= n].standardized

\* complaints_modular_cleaning_eda.py:50-55
filter_products(raw) ==
    LET product == lower(str(raw))
        hits == {n \in 1..Len(TARGET_PRODUCTS) :
                    AnyVariantIn(TARGET_PRODUCTS[n].variants, product)}
    IN  IF hits = {} THEN None
        ELSE TARGET_PRODUCTS[CHOOSE n \in hits : \A m \in hits : n <= m].standardized

\* preprocessing.py:28-31
loan_terms ==
    <<<<"p","e","r","s","o","n","a","l"," ","l","o","a","n">>, <<"c","o","n","s","u","m","e","r"," ","l","o","a","n">>, <<"p","a","y","d","a","y"," ","l","o","a","n">>,
      <<"t","i","t","l","e"," ","l","o","a","n">>, <<"a","d","v","a","n","c","e"," ","l","o","a","n">>, <<"v","e","h","i","c","l","e"," ","l","o","a","n">>>>

\* preprocessing.py:21-39
map_to_target_product(raw_product, raw_narrative) ==
    LET product == lower(str(raw_product))
        narrative == lower(str(raw_narrative))
    IN  IF Contains(<<"c","r","e","d","i","t"," ","c","a","r","d">>, product) \/ Contains(<<"p","r","e","p","a","i","d"," ","c","a","r","d">>, product)
        THEN <<"C","r","e","d","i","t"," ","c","a","r","d">>
        ELSE IF AnyVariantIn(loan_terms, product)
        THEN IF Contains(<<"b","u","y"," ","n","o","w"," ","p","a","y"," ","l","a","t","e","r">>, narrative)
                  \/ Contains(<<"b","n","p","l">>, narrative)
             THEN <<"B","u","y"," ","N","o","w",","," ","P","a","y"," ","L","a","t","e","r">>
             ELSE <<"P","e","r","s","o","n","a","l"," ","l","o","a","n">>
        ELSE IF Contains(<<"c","h","e","c","k","i","n","g"," ","o","r"," ","s","a","v","i","n","g","s">>, product)
                  \/ Contains(<<"b","a","n","k"," ","a","c","c","o","u","n","t">>, product)
                  \/ Contains(<<"s","a","v","i","n","g","s">>, product)
        THEN <<"S","a","v","i","n","g","s"," ","a","c","c","o","u","n","t">>
        ELSE IF Contains(<<"m","o","n","e","y"," ","t","r","a","n","s","f","e","r">>, product)
                  \/ Contains(<<"v","i","r","t","u","a","l"," ","c","u","r","r","e","n","c","y">>, product)
                  \/ Contains(<<"m","o","n","e","y"," ","s","e","r","v","i","c","e">>, product)
        THEN <<"M","o","n","e","y"," ","t","r","a","n","s","f","e","r">>
        ELSE None

\* prep.py:124-132: df['Product'].isin(target_products), of one cell: the
\* record is kept, with its category as it is, when it is one of the five
prep_isin(raw) == raw \in target_products

-----------------------------------------------------------------------------
(* Regular expressions of complaints_modular_cleaning_eda.py, matched as *)
(* re matches them: by backtracking, greedy first, alternatives in order *)

Lit(s) == [k |-> "lit", s |-> s]
Cls(c) == [k |-> "cls", c |-> c]
Opt(r) == [k |-> "opt", r |-> r]
Star(c) == [k |-> "star", c |-> c, least |-> 0]
Plus(c) == [k |-> "star", c |-> c, least |-> 1]
Alt(rs) == [k |-> "alt", rs |-> rs]
Cat(rs) == [k |-> "cat", rs |-> rs]
WordBoundary == [k |-> "wb"]

\* \w of the characters a text can hold
IsWord(c) == IsAlnum(c) \/ c = "_"

\* the character classes the patterns use: \s \w \d . [\w-] [\w/] [\d-] x
InClass(c, cls) ==
    CASE cls = "s" -> IsSpace(c)
      [] cls = "w" -> IsWord(c)
      [] cls = "d" -> c \in Digits
      [] cls = "." -> c # "\n"
      [] cls = "w-" -> IsWord(c) \/ c = "-"
      [] cls = "w/" -> IsWord(c) \/ c = "/"
      [] cls = "d-" -> c \in Digits \/ c = "-"
      [] cls = "x" -> c = "x"

\* the number of characters of the class that follow one another from text[i]
RunLength(cls, text, i) ==
    LET stops == {j \in i..Len(text) : ~InClass(text[j], cls)}
    IN  IF stops = {} THEN Len(text) - i + 1
        ELSE (CHOOSE j \in stops : \A m \in stops : j <= m) - i

\* \b at position i: exactly one of text[i-1], text[i] is a word character
AtWordBoundary(text, i) ==
    LET before == i > 1 /\ IsWord(text[i - 1])
        after == i <= Len(text) /\ IsWord(text[i])
    IN  before # after

\* The position after the match re finds for the items, one after the other,
\* starting at text[i]; 0 when there is no match.
RECURSIVE MatchEnd(_, _, _)
MatchEnd(items, text, i) ==
    IF items = <<>> THEN i
    ELSE
      LET head == items[1]
          rest == Tail(items)
      IN  CASE head.k = "lit" ->
                 IF MatchesAt(head.s, text, i)
                 THEN MatchEnd(rest, text, i + Len(head.s)) ELSE 0
            [] head.k = "cls" ->
                 IF i <= Len(text) /\ InClass(text[i], head.c)
                 THEN MatchEnd(rest, text, i + 1) ELSE 0
            [] head.k = "wb" ->
                 IF AtWordBoundary(text, i) THEN MatchEnd(rest, text, i) ELSE 0
            [] head.k = "cat" -> MatchEnd(head.rs \o rest, text, i)
            [] head.k = "opt" ->
                 LET taken == MatchEnd(<<head.r>> \o rest, text, i)
                 IN  IF taken # 0 THEN taken ELSE MatchEnd(rest, text, i)
            [] head.k = "alt" ->
                 LET ok == {n \in 1..Len(head.rs) :
                               MatchEnd(<<head.rs[n]>> \o rest, text, i) # 0}
                 IN  IF ok = {} THEN 0
                     ELSE MatchEnd(<<head.rs[CHOOSE n \in ok : \A m \in ok : n <= m]>>
                                       \o rest, text, i)
            [] head.k = "star" ->
                 LET run == RunLength(head.c, text, i)
                     ok == {e \in (i + head.least)..(i + run) :
                               MatchEnd(rest, text, e) # 0}
                 IN  IF ok = {} THEN 0
                     ELSE MatchEnd(rest, text, CHOOSE e \in ok : \A m \in ok : m <= e)

\* re.sub(pattern, '', text) from position i on: the leftmost match is cut
\* out and the search goes on behind it (no pattern matches the empty string)
RECURSIVE SubFrom(_, _, _)
SubFrom(pattern, text, i) ==
    LET starts == {p \in i..Len(text) : MatchEnd(<<pattern>>, text, p) # 0}
    IN  IF starts = {} THEN SubSeq(text, i, Len(text))
        ELSE LET p == CHOOSE q \in starts : \A m \in starts : q <= m
             IN  SubSeq(text, i, p - 1)
                     \o SubFrom(pattern, text, MatchEnd(<<pattern>>, text, p))

re_sub(pattern, text) == SubFrom(pattern, text, 1)

-----------------------------------------------------------------------------
(* The clean_text of complaints_modular_cleaning_eda.py and of preprocessing.py *)

\* complaints_modular_cleaning_eda.py:19-30
boilerplate ==
    << Cat(<<Lit(<<"i">>), Opt(Cls("s")), Alt(<<Lit(<<"a","m">>), Lit(<<"h","a","v","e">>)>>),
             Opt(Cls("s")),
             Alt(<<Lit(<<"w","r","i","t","i","n","g">>), Lit(<<"f","i","l","i","n","g">>), Lit(<<"s","u","b","m","i","t","t","i","n","g">>)>>),
             Star("."), Lit(<<"c","o","m","p","l","a","i","n","t">>)>>),
       Cat(<<Lit(<<"t","h","i","s">>), Opt(Cls("s")), Alt(<<Lit(<<"i","s">>), Lit(<<"c","o","n","c","e","r","n","s">>)>>),
             Star("."), Lit(<<"c","o","m","p","l","a","i","n","t">>)>>),
       Cat(<<Lit(<<"d","e","a","r">>), Cls("s"), Star("."),
             Alt(<<Lit(<<"s","i","r">>), Lit(<<"m","a","d","a","m">>), Lit(<<"r","e","p","r","e","s","e","n","t","a","t","i","v","e">>)>>)>>),
       Cat(<<Lit(<<"c","o","m","p","a","n","y">>), Opt(Cls("s")), Opt(Lit(<<"n","a","m","e">>)), Opt(Cls("s")),
             Lit(<<":">>), Star("."), Plus("w")>>),
       Cat(<<Lit(<<"a","c","c","o","u","n","t">>), Opt(Cls("s")),
             Opt(Alt(<<Lit(<<"n","u","m","b","e","r">>), Lit(<<"#">>)>>)), Opt(Cls("s")),
             Lit(<<":">>), Star("."), Plus("w-")>>),
       Cat(<<Lit(<<"d","a","t","e">>), Opt(Cls("s")), Opt(Lit(<<"o","f">>)), Opt(Cls("s")),
             Alt(<<Lit(<<"i","n","c","i","d","e","n","t">>), Lit(<<"c","o","m","p","l","a","i","n","t">>)>>),
             Star("."), Plus("w/")>>),
       Cat(<<Lit(<<"r","e","f","e","r","e","n","c","e">>), Opt(Cls("s")),
             Alt(<<Lit(<<"n","u","m","b","e","r">>), Lit(<<"i","d">>)>>), Star("."), Plus("w")>>),
       Cat(<<Lit(<<"p","h","o","n","e">>), Opt(Cls("s")), Opt(Lit(<<"n","u","m","b","e","r">>)),
             Star("."), Plus("d-")>>),
       Cat(<<Lit(<<"x">>), Plus("x")>>),
       Alt(<<Cat(<<WordBoundary, Lit(<<"s","i","n","c","e","r","e","l","y">>), WordBoundary>>),
             Cat(<<WordBoundary, Lit(<<"r","e","g","a","r","d","s">>), WordBoundary>>)>>) >>

\* for pattern in boilerplate: text = re.sub(pattern, '', text), from the
\* n-th pattern on
RECURSIVE SubAll(_, _, _)
SubAll(patterns, text, n) ==
    IF n > Len(patterns) THEN text
    ELSE SubAll(patterns, re_sub(patterns[n], text), n + 1)

\* [a-z0-9\s.,!?$%] of complaints_modular_cleaning_eda.py:32
eda_allowed(c) ==
    \/ c \in Range(LowerChars) \cup Digits
    \/ IsSpace(c)
    \/ c \in {".", ",", "!", "?", "$", "%"}

\* complaints_modular_cleaning_eda.py:35: every run of two or more letters
\* a-z between word boundaries is replaced by its lower case
lower_words(text) ==
    [i \in 1..Len(text) |->
        IF text[i] \in Range(LowerChars) THEN LowerChar(text[i]) ELSE text[i]]

\* complaints_modular_cleaning_eda.py:16-37
eda_clean_text(text) ==
    IF ~IsStr(text) THEN <<>>
    ELSE
      LET lowered == lower(text)
          allowed == SelectSeq(lowered, eda_allowed)
          removed == SubAll(boilerplate, allowed, 1)
      IN  strip(collapse_whitespace(lower_words(removed)))

\* [a-z0-9\s] of preprocessing.py:15
preprocessing_allowed(c) == c \in Range(LowerChars) \cup Digits \/ IsSpace(c)

\* preprocessing.py:11-16, of a str
preprocessing_clean_text(text) ==
    strip(SelectSeq(collapse_whitespace(lower(text)), preprocessing_allowed))

-----------------------------------------------------------------------------
(* What the three preprocessing scripts do with one record of the raw data *)

\* a record that is not written, and a record that is
Dropped(why) == [kept |-> FALSE, why |-> why]

Kept(product, cleaned) ==
    [kept |-> TRUE, product |-> product, cleaned_narrative |-> cleaned,
     word_count |-> word_count(cleaned)]

\* complaints_modular_cleaning_eda.py:78-84
process_complaints_record(product, narrative) ==
    IF filter_products(product) = None THEN Dropped("product")
    ELSE IF narrative = NaN THEN Dropped("no narrative")
    ELSE LET cleaned == eda_clean_text(str(narrative))
         IN  IF word_count(cleaned) > MinWords /\ word_count(cleaned) < MaxWords
             THEN Kept(filter_products(product), cleaned)
             ELSE Dropped("length")

\* preprocessing.py:69-89
preprocessing_record(product, narrative) ==
    IF narrative = NaN THEN Dropped("no narrative")
    ELSE IF map_to_target_product(product, str(narrative)) = None
    THEN Dropped("product")
    ELSE LET cleaned == preprocessing_clean_text(str(narrative))
         IN  IF /\ Len(strip(str(narrative))) > MinChars
                /\ word_count(cleaned) > MinWords
                /\ word_count(cleaned) < MaxWords
             THEN Kept(map_to_target_product(product, str(narrative)), cleaned)
             ELSE Dropped("length")

\* prep.py:132-179; the category is a cell of the Product column
prep_record(product, narrative) ==
    IF ~prep_isin(product) THEN Dropped("product")
    ELSE IF narrative = NaN THEN Dropped("no narrative")
    ELSE LET cleaned == prep_clean_text(str(narrative))
         IN  IF Len(strip(cleaned)) > 0 THEN Kept(product, cleaned)
             ELSE Dropped("length")

-----------------------------------------------------------------------------
(* preprocessing.py: run_preprocessing over the raw file *)

\* the characters of a cell of the Product column
ProductText(product) ==
    CASE product = "Credit card" -> <<"C","r","e","d","i","t"," ","c","a","r","d">>
      [] product = "Personal loan" -> <<"P","e","r","s","o","n","a","l"," ","l","o","a","n">>
      [] product = "Savings account" -> <<"S","a","v","i","n","g","s"," ","a","c","c","o","u","n","t">>
      [] product = "Money transfers" -> <<"M","o","n","e","y"," ","t","r","a","n","s","f","e","r","s">>
      [] product = "Buy Now, Pay Later (BNPL)" -> <<"B","u","y"," ","N","o","w",","," ","P","a","y"," ","L","a","t","e","r"," ","(","B","N","P","L",")">>
      [] product = "Mortgage" -> <<"M","o","r","t","g","a","g","e">>

\* preprocessing.py:93: the columns of the file written
preprocessing_columns ==
    {"complaint_id", "product", "cleaned_narrative", "narrative_len"}

\* preprocessing.py:78-94: the rows kept of the rows that have a narrative
preprocessing_rows(rows) ==
    LET done == [i \in 1..Len(rows) |->
                    preprocessing_record(ProductText(rows[i][PRODUCT]),
                                         rows[i][NARRATIVE])]
        kept == SelectSeq(Positions(rows), LAMBDA i : done[i].kept)
    IN  [n \in 1..Len(kept) |->
            [complaint_id |-> rows[kept[n]][ID],
             product |-> done[kept[n]].product,
             cleaned_narrative |-> done[kept[n]].cleaned_narrative,
             narrative_len |-> done[kept[n]].word_count]]

\* preprocessing.py:44-111: run_preprocessing(), which handles no exception.
\* The raw file is read as one chunk (chunksize is 100,000 rows).  When no
\* row of the chunk has a narrative, chunk.apply(..., axis=1) of line 74 is
\* applied to an empty frame and returns a frame, not a column, and the
\* assignment to chunk['product'] raises ValueError.  A file with a header
\* and no rows yields nothing to concatenate at line 97.
preprocessing_run_preprocessing(fsys) ==
    CASE fsys.raw.state = "missing" ->
           StageEnd(fsys, "raised", "FileNotFoundError", FALSE)
      [] fsys.raw.state = "empty" ->
           StageEnd(fsys, "raised", "EmptyDataError", FALSE)
      [] fsys.raw.state = "unreadable" ->
           StageEnd(fsys, "raised", "ParserError", FALSE)
      [] OTHER ->
           LET df == fsys.raw
               with_narrative == SelectSeq(df.rows, LAMBDA r : r[NARRATIVE] # NaN)
           IN  IF df.rows = <<>>
               THEN StageEnd(fsys, "raised", "ValueError: No objects to concatenate", FALSE)
               ELSE IF ~(RawCols \subseteq df.cols)
               THEN StageEnd(fsys, "raised", "KeyError: not in index", FALSE)
               ELSE IF with_narrative = <<>>
               THEN StageEnd(fsys, "raised",
                             "ValueError: Cannot set a DataFrame with multiple columns to the single column product",
                             FALSE)
               ELSE StageEnd([fsys EXCEPT
                                !.filtered = Table(preprocessing_columns,
                                                   preprocessing_rows(with_narrative)),
                                !.filtered_dir = TRUE],
                             "completed", "Saved filtered dataset", TRUE)

-----------------------------------------------------------------------------
(* SpecOffline: the offline stages run over a file system *)

MaxRows == 4        \* most rows of a raw input table

\* rows of raw input tables: Complaint ID, Product, Consumer complaint narrative
SampleRows ==
    << <<101, "Credit card", <<"I"," ","w","o","u","l","d"," ","l","i","k","e"," ","t","o"," ","r",
        "e","p","o","r","t"," "," ","a"," ","l","a","t","e"," ","F","E","E",
        "!","!">>>>,
       <<102, "Money transfers", <<"N","u","l","l","!">>>>,
       <<103, "Savings account", NaN>>,
       <<104, "Personal loan", <<"T","o"," ","w","h","o","m"," ","i","t"," ","m","a","y"," ","c","o",
        "n","c","e","r","n",".",".",".">>>>,
       <<105, "Mortgage", <<"B","a","d"," ","l","o","a","n",".">>>> >>

RawTable(cols, n) ==
    Table(cols,
          [i \in 1..Min(n, Len(SampleRows)) |->
              Row(cols, SampleRows[i][1], SampleRows[i][2], SampleRows[i][3])])

\* a raw file none of whose records has a narrative
NoNarratives ==
    Table(RawCols, << Row(RawCols, 201, "Credit card", NaN),
                      Row(RawCols, 202, "Mortgage", NaN) >>)

RawFiles ==
    {Missing, Unreadable, ZeroBytes, NoNarratives}
        \cup {RawTable(cols, n) : cols \in (SUBSET RawCols) \ {{}}, n \in 0..MaxRows}

\* the output of an earlier run of the stages
OldFiltered ==
    Table(columns_to_save,
          << [c \in columns_to_save |->
                 IF c = ID THEN 900
                 ELSE IF c = PRODUCT THEN "Credit card"
                 ELSE <<"o","l","d"," ","c","o","m","p","l","a","i","n","t">>] >>)

OldIndex == SavedIndex(ChunksFrom(OldFiltered, 1))

FileSystems ==
    {f \in [raw : RawFiles,
            filtered : {Missing, Unreadable, ZeroBytes, OldFiltered},
            index : {NoIndex, OldIndex},
            filtered_dir : BOOLEAN, vector_dir : BOOLEAN] :
        /\ f.filtered # Missing => f.filtered_dir
        /\ f.index # NoIndex => f.vector_dir}

NoStage == [name |-> "none"]

InitOffline ==
    /\ call = NoCallYet /\ ServingIdle
    /\ fs \in FileSystems
    /\ stage = NoStage

\* python src/prep.py
RunPrep ==
    \E mk \in {"ok", "OSError"} :
        LET r == prep_run_preprocessing(fs, mk)
        IN  /\ fs' = r.fs
            /\ stage' = [name |-> "prep", input |-> fs.raw, before |-> fs,
                         outcome |-> r.outcome, diag |-> r.diag, wrote |-> r.wrote]
            /\ UNCHANGED <<call, servingVars>>

\* python src/embed_and_index.py
RunIndexer ==
    \E o \in IndexerOutcomes :
        LET r == run_embedding_and_indexing(fs, o)
        IN  /\ fs' = r.fs
            /\ stage' = [name |-> "index", input |-> fs.filtered, before |-> fs,
                         outcome |-> r.outcome, diag |-> r.diag, wrote |-> r.wrote]
            /\ UNCHANGED <<call, servingVars>>

\* python src/preprocessing.py, from the directory src/
RunPreprocessing ==
    LET r == preprocessing_run_preprocessing(fs)
    IN  /\ fs' = r.fs
        /\ stage' = [name |-> "preprocessing", input |-> fs.raw, before |-> fs,
                     outcome |-> r.outcome, diag |-> r.diag, wrote |-> r.wrote]
        /\ UNCHANGED <<call, servingVars>>

NextOffline == RunPrep \/ RunIndexer \/ RunPreprocessing

SpecOffline == InitOffline /\ [][NextOffline]_vars

-----------------------------------------------------------------------------
(* SpecText: direct calls of the text and category functions of the *)
(* preprocessing scripts *)

MaxTextLen == 4     \* longest of the enumerated short texts

\* upper case, lower case, a letter the patterns name, whitespace, punctuation
Alphabet == {"a", "B", "x", " ", "!"}

ShortTexts == UNION {[1..n -> Alphabet] : n \in 0..MaxTextLen}

\* narratives as complainants write them
WrittenTexts ==
    { <<"I"," ","a","m"," ","w","r","i","t","i","n","g"," ","t","o"," ","f","i","l","e"," ","a"," ","c","o","m","p","l","a","i","n","t"," ","m","y"," ","c","r","e","d","i","t"," ","c","a","r","d"," ","i","n","t","e","r","e","s","t"," ","r","a","t","e"," ","w","a","s"," ","i","n","c","r","e","a","s","e","d"," ","w","i","t","h","o","u","t"," ","n","o","t","i","c","e",",">>,
      <<"T","h","i","s"," ","i","s"," ","a"," ","c","o","m","p","l","a","i","n","t","."," ","D","e","a","r"," ","S","i","r"," ","o","r"," ","M","a","d","a","m",","," ","m","y"," ","a","c","c","o","u","n","t"," ","n","u","m","b","e","r",":"," ","1","2","-","3","4"," ","w","a","s"," ","c","l","o","s","e","d","."," ","S","i","n","c","e","r","e","l","y",","," ","B","o","b">>,
      <<"R","e","f","e","r","e","n","c","e"," ","n","u","m","b","e","r"," ","1","2"," ","i","s"," ","X","X","X","X"," ","a","n","d"," ","d","a","t","e"," ","o","f"," ","i","n","c","i","d","e","n","t"," ","0","1","/","0","2","/","2","0","2","0","."," ","o","k">>,
      <<"M","y"," "," ","c","a","r","d"," "," ","w","a","s"," "," ","c","h","a","r","g","e","d"," ","a"," ","l","a","t","e"," ","f","e","e"," ","t","w","i","c","e"," ","i","n"," ","M","a","y",","," ","a","n","d"," ","n","o","b","o","d","y"," ","a","t"," ","t","h","e"," ","b","a","n","k"," ","w","o","u","l","d"," ","h","e","l","p"," ","m","e","!">>,
      <<"t","h","e"," ","b","a","n","k"," ","c","h","a","r","g","e","d"," ","m","e"," ","a"," ","f","e","e"," ","t","h","a","t"," ","i"," ","d","i","d"," ","n","o","t"," ","a","g","r","e","e"," ","t","o">>,
      <<"I"," ","u","s","e","d"," ","B","N","P","L"," ","t","o"," ","p","a","y",".","\n","\t","T","h","e","y"," ","c","h","a","r","g","e","d"," ","m","e"," ","t","w","i","c","e","?">>,
      <<" ","a"," ","!"," ","b"," ">> }

Texts == ShortTexts \cup WrittenTexts

\* the Product column as the CFPB data and its variants spell it
RawCategories ==
    { <<"C","r","e","d","i","t"," ","c","a","r","d">>, <<"C","r","e","d","i","t"," ","c","a","r","d"," ","o","r"," ","p","r","e","p","a","i","d"," ","c","a","r","d">>, <<"P","r","e","p","a","i","d"," ","c","a","r","d">>,
      <<"P","a","y","d","a","y"," ","l","o","a","n",","," ","t","i","t","l","e"," ","l","o","a","n",","," ","o","r"," ","p","e","r","s","o","n","a","l"," ","l","o","a","n">>, <<"C","o","n","s","u","m","e","r"," ","L","o","a","n">>,
      <<"V","e","h","i","c","l","e"," ","l","o","a","n"," ","o","r"," ","l","e","a","s","e">>, <<"C","h","e","c","k","i","n","g"," ","o","r"," ","s","a","v","i","n","g","s"," ","a","c","c","o","u","n","t">>,
      <<"B","a","n","k"," ","a","c","c","o","u","n","t"," ","o","r"," ","s","e","r","v","i","c","e">>, <<"S","a","v","i","n","g","s"," ","a","c","c","o","u","n","t">>,
      <<"M","o","n","e","y"," ","t","r","a","n","s","f","e","r",","," ","v","i","r","t","u","a","l"," ","c","u","r","r","e","n","c","y",","," ","o","r"," ","m","o","n","e","y"," ","s","e","r","v","i","c","e">>,
      <<"M","o","n","e","y"," ","t","r","a","n","s","f","e","r","s">>, <<"B","u","y"," ","N","o","w",","," ","P","a","y"," ","L","a","t","e","r"," ","(","B","N","P","L",")">>,
      <<"P","e","r","s","o","n","a","l"," ","l","o","a","n"," ","/"," ","C","r","e","d","i","t"," ","c","a","r","d">>, <<"W","i","r","e"," ","t","r","a","n","s","f","e","r"," ","f","r","o","m"," ","a"," ","b","a","n","k"," ","a","c","c","o","u","n","t">>,
      <<"B","N","P","L"," ","p","e","r","s","o","n","a","l"," ","l","o","a","n">>, <<"M","o","r","t","g","a","g","e">>, <<"D","e","b","t"," ","c","o","l","l","e","c","t","i","o","n">>, <<>> }

\* narratives the category mapping of preprocessing.py looks into
MappingNarratives ==
    { <<"I"," ","u","s","e","d"," ","B","N","P","L"," ","t","o"," ","p","a","y",".","\n","\t","T","h","e","y"," ","c","h","a","r","g","e","d"," ","m","e"," ","t","w","i","c","e","?">>,
      <<"t","h","e"," ","b","a","n","k"," ","c","h","a","r","g","e","d"," ","m","e"," ","a"," ","f","e","e"," ","t","h","a","t"," ","i"," ","d","i","d"," ","n","o","t"," ","a","g","r","e","e"," ","t","o">>,
      <<"B","u","y"," ","n","o","w"," ","p","a","y"," ","l","a","t","e","r"," ","p","l","a","n">> }

\* Each behaviour of SpecText is one call: a function is applied to one input.
CallEdaCleanText ==
    \E text \in Texts \cup {NaN} \cup Numbers :
        /\ call = NoCallYet
        /\ call' = [fn |-> "eda_clean_text", text |-> text,
                    res |-> eda_clean_text(text)]
        /\ UNCHANGED <<servingVars, offlineVars>>

CallPreprocessingCleanText ==
    \E text \in Texts :
        /\ call = NoCallYet
        /\ call' = [fn |-> "preprocessing_clean_text", text |-> text,
                    res |-> preprocessing_clean_text(text)]
        /\ UNCHANGED <<servingVars, offlineVars>>

CallPrepCleanText ==
    \E text \in Texts :
        /\ call = NoCallYet
        /\ call' = [fn |-> "prep_clean_text", text |-> text,
                    res |-> prep_clean_text(text)]
        /\ UNCHANGED <<servingVars, offlineVars>>

CallFilterProducts ==
    \E product \in RawCategories \cup {NaN} :
        /\ call = NoCallYet
        /\ call' = [fn |-> "filter_products", product |-> product,
                    res |-> filter_products(product)]
        /\ UNCHANGED <<servingVars, offlineVars>>

CallMapToTargetProduct ==
    \E product \in RawCategories \cup {NaN}, narrative \in MappingNarratives :
        /\ call = NoCallYet
        /\ call' = [fn |-> "map_to_target_product", product |-> product,
                    narrative |-> narrative,
                    res |-> map_to_target_product(product, narrative)]
        /\ UNCHANGED <<servingVars, offlineVars>>

CallIsin ==
    \E product \in target_products \cup {"Mortgage", "credit card", "Money transfer"} :
        /\ call = NoCallYet
        /\ call' = [fn |-> "isin", product |-> product, res |-> prep_isin(product)]
        /\ UNCHANGED <<servingVars, offlineVars>>

\* the narrative cells of raw records: texts, absent, not text
RecordNarratives == WrittenTexts \cup {NaN} \cup Numbers

CallProcessComplaintsRecord ==
    \E product \in RawCategories \cup {NaN}, narrative \in RecordNarratives :
        /\ call = NoCallYet
        /\ call' = [fn |-> "process_complaints", product |-> product,
                    narrative |-> narrative,
                    res |-> process_complaints_record(product, narrative)]
        /\ UNCHANGED <<servingVars, offlineVars>>

CallPreprocessingRecord ==
    \E product \in RawCategories \cup {NaN}, narrative \in RecordNarratives :
        /\ call = NoCallYet
        /\ call' = [fn |-> "preprocessing", product |-> product,
                    narrative |-> narrative,
                    res |-> preprocessing_record(product, narrative)]
        /\ UNCHANGED <<servingVars, offlineVars>>

CallPrepRecord ==
    \E product \in target_products \cup {"Mortgage"}, narrative \in RecordNarratives :
        /\ call = NoCallYet
        /\ call' = [fn |-> "prep", product |-> product, narrative |-> narrative,
                    res |-> prep_record(product, narrative)]
        /\ UNCHANGED <<servingVars, offlineVars>>

MaxTokens == 4      \* most words of a narrative that is split

\* lengths of words: short ones, one as long as the overlap allows, and
\* unbroken runs of characters up to more than a chunk
WordLengths == {1, 140, 700, 1350, 1495, 3000}

Narratives == UNION {[1..n -> WordLengths] : n \in 1..MaxTokens}

\* embed_and_index.py:96: the narrative of a row is split
CallSplitText ==
    \E words \in Narratives :
        /\ call = NoCallYet
        /\ call' = [fn |-> "split_text", words |-> words, res |-> split_text(words)]
        /\ UNCHANGED <<servingVars, offlineVars>>

\* a cleaned narrative longer than a chunk: words of 700, 600, 140 and 100
\* characters
LongNarrative ==
    [i \in 1..1543 |->
        IF i \in {701, 1302, 1443} THEN " "
        ELSE IF i <= 700 THEN "a"
        ELSE IF i <= 1301 THEN "b"
        ELSE IF i <= 1442 THEN "c"
        ELSE "d"]

\* a filtered file whose first record is split into more than one chunk
LongFiltered ==
    Table(columns_to_save,
          << [c \in columns_to_save |->
                 IF c = ID THEN 901
                 ELSE IF c = PRODUCT THEN "Personal loan"
                 ELSE LongNarrative],
             [c \in columns_to_save |->
                 IF c = ID THEN 902
                 ELSE IF c = PRODUCT THEN "Savings account"
                 ELSE <<"l","a","t","e"," ","f","e","e">>] >>)

\* a filtered file with records whose cleaned narrative is missing, blank or
\* spelled like a missing value
SparseFiltered ==
    Table(columns_to_save,
          [i \in 1..4 |->
              [c \in columns_to_save |->
                  IF c = ID THEN 910 + i
                  ELSE IF c = PRODUCT THEN Products[(i % Len(Products)) + 1]
                  ELSE << <<>>, <<" "," ">>, <<"n","u","l","l">>,
                          <<"c","a","r","d"," ","f","e","e">> >>[i]]])

FilteredFiles == {OldFiltered, LongFiltered, SparseFiltered}

\* embed_and_index.py:39,82-100: the filtered file is read and its narratives
\* are chunked
CallChunkNarratives ==
    \E file \in FilteredFiles :
        /\ call = NoCallYet
        /\ call' = [fn |-> "chunk_narratives", file |-> file,
                    res |-> chunk_narratives(read_csv(file))]
        /\ UNCHANGED <<servingVars, offlineVars>>

NextText ==
    \/ CallEdaCleanText
    \/ CallPreprocessingCleanText
    \/ CallPrepCleanText
    \/ CallFilterProducts
    \/ CallMapToTargetProduct
    \/ CallIsin
    \/ CallProcessComplaintsRecord
    \/ CallPreprocessingRecord
    \/ CallPrepRecord
    \/ CallSplitText
    \/ CallChunkNarratives

SpecText == InitFn /\ [][NextText]_vars

-----------------------------------------------------------------------------
(* SpecSystem: the indexer and a serving process over one file system.     *)
(* db.save_local (embed_and_index.py:136) writes index.faiss and then      *)
(* index.pkl into vector_store/complaint_faiss_index; FAISS.load_local     *)
(* (rag_pipeline.py:44) reads index.faiss and then index.pkl.  Neither     *)
(* takes a lock, so the steps of the two processes interleave.             *)

MaxServed == 2      \* most queries the serving process answers

\* A file of the index directory: absent, opened for writing and not yet
\* complete, or written from the documents of a build.
Absent == [state |-> "absent"]

Truncated == [state |-> "truncated"]

Written(documents) == [state |-> "written", docs |-> documents]

\* The index directory: whether it exists, and its files index.faiss (the
\* vectors) and index.pkl (the docstore)
IndexFiles(dir, faiss, pkl) == [dir |-> dir, faiss |-> faiss, pkl |-> pkl]

NoIndexFiles == IndexFiles(FALSE, Absent, Absent)

\* what a completed db.save_local of the documents leaves
SavedFiles(documents) == IndexFiles(TRUE, Written(documents), Written(documents))

\* FAISS.load_local: the store made of the vectors read from index.faiss and
\* the docstore read from index.pkl
LoadedStore(faiss, pkl) ==
    [kind |-> "FAISS", docs |-> pkl.docs, vectors |-> faiss.docs]

SystemFileSystems ==
    {f \in [raw : {Missing, RawTable(RawCols, 2)},
            filtered : {Missing, OldFiltered, SparseFiltered},
            index : {NoIndexFiles, SavedFiles(ChunksFrom(OldFiltered, 1))},
            filtered_dir : BOOLEAN, vector_dir : BOOLEAN] :
        /\ f.filtered # Missing => f.filtered_dir
        /\ f.index.dir => f.vector_dir}

\* how the loads of the serving process end, apart from what the index files hold
SystemEnvs == [emb : LoadOutcomes, store : LoadOutcomes, llm : LoadOutcomes]

InitSystem ==
    /\ call = NoCallYet
    /\ fs \in SystemFileSystems
    /\ stage = NoStage
    /\ env \in SystemEnvs
    /\ ui = "none" /\ pc = "start"
    /\ db = None /\ embeddings = None /\ llm_pipeline = None
    /\ history = <<>> /\ shown = <<>> /\ session = EmptySession
    /\ last = NoRun /\ nq = 0 /\ failed = FALSE /\ loaded = NoneTriple

indexerFrame == <<call, servingVars>>

servingFrame == <<call, fs, stage>>

\* embed_and_index.py:10-132: the run up to the call of db.save_local: it ends
\* before that call, or it has built the store over the documents.  Of the
\* files only what the run writes before saving is written here.
IndexerBuild ==
    /\ stage = NoStage
    /\ \E o \in IndexerOutcomes :
         LET r == run_embedding_and_indexing(fs, o)
         IN  /\ fs' = [r.fs EXCEPT !.index = fs.index]
             /\ stage' = [name |-> "index",
                          at |-> IF r.wrote THEN "built" ELSE "ended",
                          outcome |-> IF r.wrote THEN "running" ELSE r.outcome,
                          documents |-> IF r.wrote THEN r.fs.index.docs ELSE <<>>,
                          save |-> o.save]
    /\ UNCHANGED indexerFrame

\* save_local: the directory is made and index.faiss is opened for writing
OpenFaiss ==
    /\ stage.name = "index" /\ stage.at = "built"
    /\ fs' = [fs EXCEPT !.index = IndexFiles(TRUE, Truncated, fs.index.pkl)]
    /\ stage' = [stage EXCEPT !.at = "faiss_open"]
    /\ UNCHANGED indexerFrame

\* save_local: faiss.write_index completes; a save that fails fails before
\* index.pkl is opened, and the handler of lines 143-147 returns
WriteFaiss ==
    /\ stage.name = "index" /\ stage.at = "faiss_open"
    /\ fs' = [fs EXCEPT !.index.faiss = Written(stage.documents)]
    /\ stage' = IF stage.save = "raises_while_writing"
                THEN [stage EXCEPT !.at = "ended", !.outcome = "returned"]
                ELSE [stage EXCEPT !.at = "faiss_written"]
    /\ UNCHANGED indexerFrame

\* save_local: index.pkl is opened for writing
OpenPkl ==
    /\ stage.name = "index" /\ stage.at = "faiss_written"
    /\ fs' = [fs EXCEPT !.index.pkl = Truncated]
    /\ stage' = [stage EXCEPT !.at = "pkl_open"]
    /\ UNCHANGED indexerFrame

\* save_local: pickle.dump completes and the run ends
WritePkl ==
    /\ stage.name = "index" /\ stage.at = "pkl_open"
    /\ fs' = [fs EXCEPT !.index.pkl = Written(stage.documents)]
    /\ stage' = [stage EXCEPT !.at = "ended", !.outcome = "completed"]
    /\ UNCHANGED indexerFrame

\* What load_components finds: the outcomes of env, whether the index
\* directory was there, and how reading its files went.
Found(dir_exists, store) ==
    [emb |-> env.emb, dir_exists |-> dir_exists, store |-> store, n |-> 0,
     llm |-> env.llm]

\* load_components returns and the module-level initialization assigns the
\* globals (app.py:20-31); store is the store read from the index files.
EndLoad(e, store) ==
    LET r == load_components(e)
        triple == IF Truthy(r.ret[1]) THEN <<store, r.ret[2], r.ret[3]>> ELSE r.ret
        g == module_init(triple)
    IN  /\ loaded' = [ret |-> triple, raised |-> r.raised]
        /\ pc' = IF r.raised THEN "crashed" ELSE "serving"
        /\ db' = g[1] /\ embeddings' = g[2] /\ llm_pipeline' = g[3]

\* rag_pipeline.py:29-44: the embedding model is loaded and the index
\* directory is looked for; load_local imports the faiss library
BeginLoad ==
    /\ pc = "start"
    /\ IF env.emb = "ok" /\ fs.index.dir /\ env.store = "ok"
       THEN /\ pc' = "read_faiss"
            /\ UNCHANGED <<db, embeddings, llm_pipeline, loaded>>
       ELSE EndLoad(Found(fs.index.dir, env.store), None)
    /\ UNCHANGED <<env, ui, history, shown, session, last, nq, failed>>
    /\ UNCHANGED servingFrame

\* load_local: faiss.read_index of index.faiss; a file that is absent or
\* not complete makes it raise
ReadFaiss ==
    /\ pc = "read_faiss"
    /\ IF fs.index.faiss.state = "written"
       THEN /\ pc' = "read_pkl"
            /\ loaded' = [ret |-> NoneTriple.ret, raised |-> FALSE,
                          faiss |-> fs.index.faiss]
            /\ UNCHANGED <<db, embeddings, llm_pipeline>>
       ELSE EndLoad(Found(TRUE, "Exception"), None)
    /\ UNCHANGED <<env, ui, history, shown, session, last, nq, failed>>
    /\ UNCHANGED servingFrame

\* load_local: pickle.load of index.pkl; then the generation model is loaded
\* (rag_pipeline.py:58-72)
ReadPkl ==
    /\ pc = "read_pkl"
    /\ IF fs.index.pkl.state = "written"
       THEN EndLoad(Found(TRUE, "ok"), LoadedStore(loaded.faiss, fs.index.pkl))
       ELSE EndLoad(Found(TRUE, "Exception"), None)
    /\ UNCHANGED <<env, ui, history, shown, session, last, nq, failed>>
    /\ UNCHANGED servingFrame

\* A query answered by run_rag_pipeline over the loaded components
\* (app.py:41-50, apps.py:98-104, rag_pipeline.py:153-156).  The documents a
\* search returns are documents of the docstore.
SystemQuery ==
    /\ pc = "serving" /\ nq < MaxServed
    /\ AllTruthy(<<db, embeddings, llm_pipeline>>)
    /\ \E question \in Questions, s \in SearchOutcomes, o \in GenOutcomes :
         LET r == run_rag_pipeline(question, db, llm_pipeline, DefaultK, s, o)
         IN  /\ last' = [ran |-> TRUE, message |-> question, store |-> db,
                         rag |-> RagRun(r)]
             /\ failed' = (failed \/ r.raised)
    /\ nq' = nq + 1
    /\ UNCHANGED <<env, ui, pc, db, embeddings, llm_pipeline, history, shown,
                   session, loaded>>
    /\ UNCHANGED servingFrame

NextSystem ==
    \/ IndexerBuild
    \/ OpenFaiss
    \/ WriteFaiss
    \/ OpenPkl
    \/ WritePkl
    \/ BeginLoad
    \/ ReadFaiss
    \/ ReadPkl
    \/ SystemQuery

SpecSystem == InitSystem /\ [][NextSystem]_vars

-----------------------------------------------------------------------------
(* Claims about the pure functions, checked under SpecFn *)

EmptyContextCall == call.fn = "generate_answer" /\ call.context_chunks = <<>>

\* C1 (as stated): generate_answer called with an empty chunk list never
\* invokes the generation model and always returns the fixed
\* insufficient-information answer, for every question and every value of the
\* llm_pipeline argument.
C1_EmptyContextAnyPipeline ==
    EmptyContextCall =>
        /\ ~call.res.llm_call.invoked
        /\ ~call.res.raised
        /\ call.res.ret = MSG_NO_INFO

\* C1 (amended): generate_answer called with an empty chunk list never invokes
\* the generation model; it returns the fixed insufficient-information answer
\* for every question when llm_pipeline is an initialized pipeline, and
\* "LLM generator not initialized." when llm_pipeline is None.
C1_EmptyContextShortCircuit ==
    EmptyContextCall =>
        /\ ~call.res.llm_call.invoked
        /\ ~call.res.raised
        /\ call.res.ret =
             IF Truthy(call.llm_pipeline) THEN MSG_NO_INFO ELSE MSG_LLM_NOT_INIT

C1_Witness ==
    /\ EmptyContextCall
    /\ Truthy(call.llm_pipeline)
    /\ call.outcome.at = "none" /\ call.outcome.text = "generated answer"
    /\ call.res.ret = MSG_NO_INFO

\* C3: if the call of the generation model raises inside generate_answer
\* (non-empty chunks, initialized pipeline), generate_answer returns the fixed
\* message "An error occurred during answer generation.", does not propagate
\* the exception, and its return value is not the exception text.
C3_GenerationErrorIsMasked ==
    (/\ call.fn = "generate_answer"
     /\ call.context_chunks # <<>>
     /\ Truthy(call.llm_pipeline)
     /\ call.outcome.at = "llm")
    =>  /\ call.res.llm_call.invoked
        /\ ~call.res.raised
        /\ call.res.ret = MSG_GEN_ERROR
        /\ call.res.ret # call.outcome.text

C3_Witness ==
    /\ call.fn = "generate_answer"
    /\ Len(call.context_chunks) = 2
    /\ Truthy(call.llm_pipeline)
    /\ call.outcome.at = "llm"
    /\ call.res.ret = MSG_GEN_ERROR
    /\ call.res.log = EXC_TEXT

\* C4: retrieve_chunks(question, db, k) returns at most k chunks, exactly
\* min(k, index size) of them (the nearest, in order) when the similarity
\* search succeeds, and never raises: with an empty index, with db None and
\* when the search fails it returns the empty list.
C4_RetrieveCount ==
    call.fn = "retrieve_chunks" =>
        /\ ~call.res.raised
        /\ Len(call.res.ret) <= call.k
        /\ (Truthy(call.db) /\ call.search = "ok") =>
               /\ Len(call.res.ret) = Min(call.k, Len(call.db.docs))
               /\ call.res.ret = Take(Ranked(call.db, call.question), call.k)
        /\ (~Truthy(call.db) \/ call.search = "raises") => call.res.ret = <<>>
        /\ (Truthy(call.db) /\ Len(call.db.docs) = 0) => call.res.ret = <<>>

C4_Witness ==
    /\ call.fn = "retrieve_chunks"
    /\ Truthy(call.db) /\ Len(call.db.docs) = MaxIndex
    /\ call.k = DefaultK /\ call.search = "ok"
    /\ Len(call.res.ret) = DefaultK

\* generate_answer was called and invoked the generation model
ModelInvoked == call.fn = "generate_answer" /\ call.res.llm_call.invoked

-----------------------------------------------------------------------------
(* Claims about the serving process, checked under Spec *)

\* every component loaded at start-up
AllOk(e) ==
    e.emb = "ok" /\ e.dir_exists /\ e.store = "ok" /\ e.llm = "ok"

Last(s) == s[Len(s)]

\* The reply the user of the chat sees for the query on display, if any.
HasReply ==
    IF ui = "gradio" THEN shown # <<>>
    ELSE session.messages # <<>> /\ Last(session.messages).role = "assistant"

Reply ==
    IF ui = "gradio" THEN Last(Last(shown)) ELSE Last(session.messages)

NotInitializedReply ==
    IF ui = "gradio" THEN Msg("assistant", Plain(MSG_NOT_INIT))
    ELSE Msg("assistant", Plain(Exact(MSG_ST_NOT_LOADED)))

\* C2: when a component failed to load at start-up, every query submitted
\* through a chat UI receives the fixed not-initialized message as the
\* assistant reply, and run_rag_pipeline is not invoked for it.
C2_UninitializedReply ==
    (pc = "serving" /\ last.ran /\ ~AllOk(env)) =>
        /\ ~last.rag.ran
        /\ HasReply
        /\ Reply = NotInitializedReply

\* C5: run_rag_pipeline on a store with no index entries returns the pair
\* (fixed not-enough-information answer, empty chunk list) without raising and
\* without calling the generation model.
C5_EmptyStore ==
    (/\ pc = "serving" /\ last.ran /\ last.rag.ran
     /\ Truthy(db) /\ Len(db.docs) = 0)
    =>  /\ ~last.rag.raised
        /\ last.rag.retrieved_docs = <<>>
        /\ last.rag.answer = MSG_NO_INFO
        /\ ~last.rag.llm_call.invoked

C5_Witness ==
    /\ pc = "serving" /\ last.ran /\ last.rag.ran
    /\ Truthy(db) /\ Len(db.docs) = 0
    /\ last.rag.answer = MSG_NO_INFO
    /\ last.rag.logs[1] = EXC_TEXT

\* C6: load_components is all-or-nothing: it returns (None, None, None) if the
\* embedding model, the vector store (a missing directory included) or the
\* generation pipeline fails to load, the three loaded components only when
\* all three loaded, never a mix, and it never raises.
C6_AllOrNothing ==
    pc # "start" =>
        /\ ~loaded.raised
        /\ pc = "serving"
        /\ loaded.ret = IF AllOk(env) THEN <<FAISS(env.n), Embeddings, Pipeline>>
                        ELSE <<None, None, None>>
        /\ AllTruthy(loaded.ret)
             \/ (~Truthy(loaded.ret[1]) /\ ~Truthy(loaded.ret[2])
                 /\ ~Truthy(loaded.ret[3]))

C6_Witness ==
    /\ pc = "serving"
    /\ env.emb = "ok" /\ env.dir_exists /\ env.store = "ok" /\ env.llm = "ImportError"
    /\ loaded.ret = <<None, None, None>>

\* C7: if the RAG pipeline raises while the Gradio respond handler processes a
\* query, the exception is caught and the user receives the fixed
\* internal-error message, never the exception text; the components stay
\* loaded and every later query is handled as if no failure had happened.
C7_GradioFailureIsContained ==
    (ui = "gradio" /\ pc = "serving" /\ AllOk(env)) =>
        /\ <<db, embeddings, llm_pipeline>> = loaded.ret
        /\ AllTruthy(<<db, embeddings, llm_pipeline>>)
        /\ last.ran =>
             /\ last.rag.ran
             /\ ~last.propagated
             /\ HasReply
             /\ Last(shown) = last.hist_in \o
                                <<Msg("user", Plain(last.message)), Reply>>
             /\ Reply.role = "assistant"
             /\ last.rag.raised =>
                  /\ Reply.content = Plain(MSG_INTERNAL)
                  /\ Reply.content.text # last.rag.exc
             /\ ~last.rag.raised => Reply.content.text = last.rag.answer

C7_Witness ==
    /\ ui = "gradio" /\ pc = "serving" /\ failed
    /\ last.ran /\ last.rag.ran /\ ~last.rag.raised
    /\ Len(last.hist_in) >= 2
    /\ last.hist_in[Len(last.hist_in)].content = Plain(MSG_INTERNAL)
    /\ Reply.content.text = "generated answer"

\* The sources a UI shows for the retrieved chunks: the first min(3, n), in
\* retrieval order, each with the identifier and the product of its chunk and
\* a preview that is a prefix of the chunk text.
SourcesMatch(srcs, docs) ==
    /\ Len(srcs) = Min(TopSources, Len(docs))
    /\ \A i \in 1..Len(srcs) :
         /\ srcs[i].complaint_id = docs[i].metadata.complaint_id
         /\ srcs[i].product = docs[i].metadata.product
         /\ srcs[i].preview.src = docs[i].page_content.src
         /\ srcs[i].preview.start = docs[i].page_content.start
         /\ srcs[i].preview.len <= docs[i].page_content.len
         /\ srcs[i].preview.len > 0

\* C8: for every answered query the chat response contains the answer text
\* and the ordered list of at most 3 displayed sources, the first min(3, n) of
\* the n retrieved chunks, each with identifier, product and text preview;
\* when no chunk was retrieved the no-relevant-sources note is shown instead.
C8_AnswerWithSources ==
    (pc = "serving" /\ last.ran /\ last.rag.ran /\ ~last.rag.raised) =>
        /\ HasReply
        /\ ui = "gradio" =>
             /\ Reply.content.text = last.rag.answer
             /\ SourcesMatch(Reply.content.sources, last.rag.retrieved_docs)
             /\ Reply.content.note = (last.rag.retrieved_docs = <<>>)
        /\ ui = "streamlit" =>
             /\ Reply.content.text = full_response_content(last.rag.answer)
             /\ SourcesMatch(SourcesArea(session).sources, last.rag.retrieved_docs)
             /\ SourcesArea(session).note = (last.rag.retrieved_docs = <<>>)

\* what load_components meets at the index location once the embedding
\* model is loaded
IndexSituation(e) ==
    IF ~e.dir_exists THEN "not yet built"
    ELSE IF e.store # "ok" THEN "corrupt"
    ELSE "loadable"

\* C12: on load, a corrupt index location is distinguishable by the caller
\* from an index that was not yet built: whenever load_components returns the
\* same result in two start-ups that both reached the index location, the
\* location was in the same situation in both.
C12_LoadFailureDistinguishable ==
    (pc # "start" /\ env.emb = "ok") =>
        \A e2 \in Envs :
            (e2.emb = "ok" /\ load_components(e2) = loaded) =>
                IndexSituation(e2) = IndexSituation(env)

\* the Gradio handler, its components initialized, handled a query
GradioHandled ==
    /\ ui = "gradio" /\ last.ran
    /\ AllTruthy(<<db, embeddings, llm_pipeline>>)

\* the chat update made of the incoming history, the user message and one
\* assistant message
Update(content) ==
    last.hist_in \o <<Msg("user", Plain(last.message)), Msg("assistant", content)>>

\* C27: for each query handled by the Gradio respond generator with the
\* components initialized, exactly two chat updates are emitted, in this
\* order: first the interim 'Searching...' message, emitted before the RAG
\* pipeline is run, then exactly one final message (the answer with its
\* sources, or the fixed error message); each update is the incoming history
\* followed by the user message and one assistant message, and the incoming
\* history is never mutated.
C27_TwoUpdatesInOrder ==
    GradioHandled =>
        /\ Len(shown) = 2
        /\ last.events = <<"yield", "run_rag_pipeline", "yield">>
        /\ last.rag.ran
        /\ shown[1] = Update(Plain(MSG_SEARCHING))
        /\ shown[2] = Update(IF last.rag.raised THEN Plain(MSG_INTERNAL)
                             ELSE final_message_content(last.rag.answer,
                                                        last.rag.retrieved_docs))
        /\ last.hist_after = last.hist_in

\* a second query, answered with its sources
C27_Witness ==
    /\ GradioHandled
    /\ last.hist_in # <<>>
    /\ ~last.rag.raised /\ last.rag.retrieved_docs # <<>>
    /\ shown[2] # shown[1]

-----------------------------------------------------------------------------
(* Claims about the text and category functions, checked under SpecText *)

\* the fixed standard categories of complaints_modular_cleaning_eda.py and
\* preprocessing.py
StandardCategories ==
    {TARGET_PRODUCTS[n].standardized : n \in 1..Len(TARGET_PRODUCTS)}

\* C14: category mapping is pure and total: for every raw category the mapped
\* result is exactly one of the fixed standard categories or None (excluded),
\* and it is determined by the raw category alone, so that two records with
\* the same raw category map to the same result whatever their narratives.
C14_CategoryMappingPure ==
    /\ call.fn = "filter_products" =>
          (call.res = None \/ call.res \in StandardCategories)
    /\ call.fn = "map_to_target_product" =>
          /\ (call.res = None \/ call.res \in StandardCategories)
          /\ \A narrative \in MappingNarratives :
                map_to_target_product(call.product, narrative) = call.res
    /\ call.fn = "isin" =>
          /\ call.res \in BOOLEAN
          /\ call.res = (call.product \in target_products)

\* a trigger of the n-th entry of TARGET_PRODUCTS is a substring of product
TriggerIn(n, product) ==
    \E v \in 1..Len(TARGET_PRODUCTS[n].variants) :
        LET trigger == TARGET_PRODUCTS[n].variants[v]
        IN  \E i \in 1..Len(product) :
                /\ i + Len(trigger) - 1 <= Len(product)
                /\ SubSeq(product, i, i + Len(trigger) - 1) = trigger

\* C15: filter_products lower-cases the raw category and returns the first
\* standard category, in the order of the TARGET_PRODUCTS table, one of whose
\* triggers is a substring of it; when triggers of several standard categories
\* occur the earliest in table order wins, and when none occurs the result is
\* None.
C15_FirstMatchWins ==
    call.fn = "filter_products" =>
        LET product == lower(str(call.product))
            table == 1..Len(TARGET_PRODUCTS)
        IN  /\ (call.res = None) <=> (\A n \in table : ~TriggerIn(n, product))
            /\ \A n \in table :
                  (TriggerIn(n, product) /\ \A m \in 1..(n - 1) : ~TriggerIn(m, product))
                      => call.res = TARGET_PRODUCTS[n].standardized

\* a raw category that holds the trigger of 'Personal loan' before that of
\* 'Credit card' is mapped to 'Credit card', the earlier entry of the table
C15_Witness ==
    /\ call.fn = "filter_products"
    /\ call.product = <<"P","e","r","s","o","n","a","l"," ","l","o","a","n"," ","/"," ","C","r","e","d","i","t"," ","c","a","r","d">>
    /\ TriggerIn(1, lower(call.product)) /\ TriggerIn(2, lower(call.product))
    /\ call.res = <<"C","r","e","d","i","t"," ","c","a","r","d">>

\* the record of the scenario: category "Credit card" and this narrative
ScenarioNarrative ==
    <<"I"," ","a","m"," ","w","r","i","t","i","n","g"," ","t","o"," ","f","i","l","e"," ","a"," ","c","o","m","p","l","a","i","n","t"," ","m","y"," ","c","r","e","d","i","t"," ","c","a","r","d"," ","i","n","t","e","r","e","s","t"," ","r","a","t","e"," ","w","a","s"," ","i","n","c","r","e","a","s","e","d"," ","w","i","t","h","o","u","t"," ","n","o","t","i","c","e",",">>

ScenarioRecordProcessed ==
    /\ \/ call.fn \in {"process_complaints", "preprocessing"}
             /\ call.product = <<"C","r","e","d","i","t"," ","c","a","r","d">>
       \/ call.fn = "prep" /\ call.product = "Credit card"
    /\ call.narrative = ScenarioNarrative

\* C17: for the record with category "Credit card" and the narrative "I am
\* writing to file a complaint my credit card interest rate was increased
\* without notice,", the cleaned narrative does not contain the boilerplate
\* phrase "i am writing to file a complaint", and the record is retained by
\* the length filter, its word count being at least 11.
C17_ScenarioRecordCleanedAndKept ==
    ScenarioRecordProcessed =>
        /\ call.res.kept
        /\ ~Contains(<<"i"," ","a","m"," ","w","r","i","t","i","n","g"," ","t","o"," ","f","i","l","e"," ","a"," ","c","o","m","p","l","a","i","n","t">>, call.res.cleaned_narrative)
        /\ call.res.word_count >= MinWords + 1

\* the characters the clean_text variant fn lets through
AllowListed(fn, c) ==
    CASE fn = "eda_clean_text" -> eda_allowed(c)
      [] fn = "preprocessing_clean_text" -> preprocessing_allowed(c)
      [] fn = "prep_clean_text" -> IsAlnum(c) \/ IsSpace(c)

\* C18: the cleaned narrative returned by every clean_text variant is
\* lower-case, holds only allow-listed characters, has no two consecutive
\* whitespace characters and no leading or trailing whitespace, for every
\* input text.
C18_CleanedTextIsNormalized ==
    call.fn \in {"eda_clean_text", "preprocessing_clean_text", "prep_clean_text"} =>
        LET res == call.res
        IN  /\ \A i \in 1..Len(res) :
                  /\ AllowListed(call.fn, res[i])
                  /\ res[i] \notin Range(UpperChars)
            /\ \A i \in 1..(Len(res) - 1) : ~(IsSpace(res[i]) /\ IsSpace(res[i + 1]))
            /\ res # <<>> => ~IsSpace(res[1]) /\ ~IsSpace(res[Len(res)])

\* the number of characters the i-th chunk shares with the next one
Overlap(chunks, i) == SliceEnd(chunks[i]) - chunks[i + 1].start

\* C19: no chunk produced by the indexer is longer than the configured chunk
\* size (1500 characters), and every non-final chunk of a narrative overlaps
\* its successor by exactly the configured overlap length (150 characters).
C19_ChunkSizeAndOverlap ==
    call.fn = "split_text" =>
        /\ \A i \in 1..Len(call.res) : call.res[i].len <= ChunkSize
        /\ \A i \in 1..(Len(call.res) - 1) : Overlap(call.res, i) = ChunkOverlap

\* C20: for every cleaned narrative, its chunks in order with the overlaps
\* removed reproduce the narrative exactly: the first chunk starts at the
\* first character, every further chunk starts inside or right behind the
\* one before and ends behind it, and the last ends at the last character; a
\* narrative shorter than the chunk size yields exactly one chunk equal to
\* it, and every narrative yields at least one chunk.
C20_ChunksReconstructNarrative ==
    call.fn = "split_text" =>
        LET chunks == call.res
            n == TextLen(call.words)
        IN  /\ Len(chunks) >= 1
            /\ chunks[1].start = 0
            /\ SliceEnd(chunks[Len(chunks)]) = n
            /\ \A i \in 1..(Len(chunks) - 1) :
                  /\ Overlap(chunks, i) >= 0
                  /\ SliceEnd(chunks[i + 1]) > SliceEnd(chunks[i])
            /\ n < ChunkSize => chunks = <<Slice(0, n)>>

\* the narratives of a filtered file were chunked
Chunked == call.fn = "chunk_narratives"

\* the rows of the file whose Complaint ID the chunk d carries
RowsOf(file, d) ==
    {i \in 1..Len(file.rows) : file.rows[i][ID] = d.metadata.complaint_id}

\* the chunk d is a piece of the narrative of the row: its text stands in the
\* narrative at its start_index, and it carries the product of the row
DerivedFrom(d, row) ==
    LET narrative == strip(str(row[CLEANED]))
        at == d.metadata.start_index
    IN  /\ d.metadata.product = row[PRODUCT]
        /\ d.metadata.original_text_length = Len(narrative)
        /\ d.page_content # <<>>
        /\ at >= 0 /\ at + Len(d.page_content) <= Len(narrative)
        /\ d.page_content = SubSeq(narrative, at + 1, at + Len(d.page_content))

\* C21: every chunk handed to the index is derived from exactly one input
\* record and carries that record's metadata: the complaint identifier and
\* the product category of the row whose narrative it was split from, and its
\* starting offset in that narrative; no chunk carries the identifier or the
\* category of another row.
C21_ChunkCarriesItsRowMetadata ==
    Chunked =>
        LET df == read_csv(call.file)
        IN  \A n \in 1..Len(call.res.documents) :
                /\ Cardinality(RowsOf(df, call.res.documents[n])) = 1
                /\ \A i \in RowsOf(df, call.res.documents[n]) :
                       DerivedFrom(call.res.documents[n], df.rows[i])

\* the chunks of two records, one of them split into two chunks, the second
\* of which starts inside the narrative
C21_Witness ==
    /\ Chunked
    /\ \E m, n \in 1..Len(call.res.documents) :
          /\ call.res.documents[m].metadata.complaint_id
                 # call.res.documents[n].metadata.complaint_id
          /\ call.res.documents[m].metadata.product
                 # call.res.documents[n].metadata.product
    /\ \E n \in 1..Len(call.res.documents) :
          call.res.documents[n].metadata.start_index > 0

\* the rows of the frame that have a narrative: the cell is not missing and
\* is not empty after stripping
ValidNarratives(df) ==
    {i \in 1..Len(df.rows) :
        /\ df.rows[i][CLEANED] # NaN
        /\ strip(str(df.rows[i][CLEANED])) # <<>>}

\* C25: the indexer creates chunks only for rows with a valid non-empty
\* narrative: a row of filtered_complaints.csv whose Cleaned_Narrative is
\* missing (NaN) or empty after stripping contributes no chunk to the index
\* and is not counted among the processed narratives.
C25_NoChunkWithoutNarrative ==
    Chunked =>
        LET df == read_csv(call.file)
        IN  /\ \A n \in 1..Len(call.res.documents) :
                  \E i \in ValidNarratives(df) :
                      df.rows[i][ID] = call.res.documents[n].metadata.complaint_id
            /\ call.res.processed_narratives_count = Cardinality(ValidNarratives(df))

-----------------------------------------------------------------------------
(* Claims about the offline stages, checked under SpecOffline *)

StageRan == stage.name \in {"prep", "index"}

\* the persisted outputs are what they were before the stage ran
OutputsUntouched ==
    /\ ~stage.wrote
    /\ fs.filtered = stage.before.filtered
    /\ fs.index = stage.before.index

\* C9: when the input file of an offline stage (preprocessing:
\* data/raw/complaints.csv; indexing: data/filtered/filtered_complaints.csv)
\* is missing or unreadable, the stage reports the problem and aborts, and
\* every already persisted output (filtered_complaints.csv, the saved vector
\* index) is left unmodified.
C9_MissingInputAborts ==
    (StageRan /\ stage.input.state \in {"missing", "unreadable"}) =>
        /\ stage.outcome = "returned"
        /\ OutputsUntouched

\* the columns a stage needs of its input
InputColumns == IF stage.name = "prep" THEN RawCols ELSE required_cols

\* an input file that is there and holds no data or lacks a required column
InputDataError ==
    /\ StageRan
    /\ \/ stage.input.state = "empty"
       \/ /\ stage.input.state = "table"
          /\ stage.input.rows = <<>> \/ ~(InputColumns \subseteq stage.input.cols)

\* C10: when an offline stage meets an input-data error other than a missing
\* file (empty dataset, missing required column), the stage stops with a
\* diagnostic and writes no output at all: no output file lacking a required
\* column, and no index, is ever written.
C10_InputDataErrorWritesNothing ==
    /\ InputDataError =>
          /\ stage.outcome \in {"returned", "raised"}
          /\ OutputsUntouched
    /\ (StageRan /\ stage.name = "prep" /\ stage.wrote) =>
          columns_to_save \subseteq fs.filtered.cols

\* C11: the index build is all-or-nothing: if embedding, index construction
\* or saving fails partway in run_embedding_and_indexing, the run aborts and
\* leaves no partial index at the persisted index location; the location holds
\* an index only after a build that completed over the full chunk set.
C11_IndexBuildAllOrNothing ==
    /\ fs.index.state \in {"missing", "complete"}
    /\ (StageRan /\ stage.name = "index" /\ stage.outcome # "completed") =>
          fs.index = stage.before.index
    /\ (StageRan /\ stage.name = "index" /\ stage.outcome = "completed") =>
          fs.index = SavedIndex(ChunksFrom(read_csv(stage.input), 1))

\* C13: every record written by a preprocessing stage has a cleaned-narrative
\* word count strictly greater than 10 and strictly less than 1000; a record
\* whose cleaned word count is outside that range is dropped whatever its
\* category.
C13_WrittenWordCountInRange ==
    (StageRan /\ stage.name = "prep" /\ stage.wrote) =>
        \A i \in 1..Len(fs.filtered.rows) :
            /\ word_count(fs.filtered.rows[i][CLEANED]) > MinWords
            /\ word_count(fs.filtered.rows[i][CLEANED]) < MaxWords

\* a preprocessing script ran over a raw file that has records and the
\* columns the script reads, and could create its output directory
RanOverRecords ==
    /\ stage.name \in {"prep", "preprocessing"}
    /\ stage.input.state = "table"
    /\ RawCols \subseteq stage.input.cols
    /\ stage.input.rows # <<>>
    /\ stage.diag # "Error creating output directory"

\* the Complaint ID of a written record
WrittenId(row) == IF stage.name = "prep" THEN row[ID] ELSE row["complaint_id"]

C26_PreprocessingOutputFeedsIndexer ==
    /\ (RanOverRecords /\ stage.wrote) => required_cols \subseteq fs.filtered.cols
    /\ (/\ stage.name = "index"
        /\ stage.input.state = "table"
        /\ stage.input.rows # <<>>
        /\ stage.input.cols \in {columns_to_save, preprocessing_columns})
          => stage.diag # "Missing required columns"

-----------------------------------------------------------------------------
(* Claims about the indexer running beside a serving process, checked *)
(* under SpecSystem *)

\* a loaded store is a snapshot of one saved index: its vectors and its
\* docstore are those of the same documents
Snapshot(store) == store.vectors = store.docs

\* C22: no query observes a partially built index: when the indexer runs
\* concurrently with a serving process that loads the index and answers
\* queries, the serving process works on a complete index snapshot or fails
\* to load; it never serves queries from a partially written index.
C22_NoPartialIndexObserved ==
    /\ (pc = "serving" /\ Truthy(db)) => Snapshot(db)
    /\ last.ran => Snapshot(last.store)

\* a step of the indexer, a step of the serving process
IndexerStep == stage' # stage

ServingStep == pc' # pc \/ nq' # nq

\* C23: data flows strictly forward and no stage mutates a prior stage's
\* persisted output: a run of the indexing stage leaves the raw and the
\* filtered CSV files unchanged, and loading the components or answering any
\* sequence of queries leaves the persisted vector index and the CSV files
\* unchanged.
C23_PriorOutputsUnchanged ==
    [][/\ IndexerStep => (fs'.raw = fs.raw /\ fs'.filtered = fs.filtered)
       /\ ServingStep => fs' = fs]_vars

\* the indexer has saved an index over a filtered file some of whose records
\* have no narrative, and the serving process has loaded an index and
\* answered two queries
C23_Witness ==
    /\ stage.name = "index" /\ stage.at = "ended" /\ stage.outcome = "completed"
    /\ fs.index = SavedFiles(stage.documents)
    /\ fs.filtered = SparseFiltered
    /\ fs.raw.state = "table"
    /\ last.ran /\ nq = MaxServed
    /\ last.rag.retrieved_docs # <<>>

=============================================================================
